---- MODULE Spec2Model ----
(***************************************************************************)
(* A model of libros, a terminal book manager: the Record Store            *)
(* (internal/database), the Add and Edit forms, the List, Detail and Menu  *)
(* screens and the Screen Router (internal/ui), with the Bubble Tea        *)
(* runtime that runs commands off the event loop and feeds their result    *)
(* messages back into Model.Update.                                        *)
(*                                                                         *)
(* Strings are sequences of one-character strings; " " is the whitespace   *)
(* character.                                                              *)
(***************************************************************************)
EXTENDS Integers, Sequences, FiniteSets, TLC

(***************************************************************************)
(* Bounds of the model.                                                    *)
(***************************************************************************)
\* longest title given to a store operation
MaxLen == 2
\* longest author and notes given to a store operation
MaxShort == 1
\* most rows the table holds
MaxBooks == 2
\* last value of the one-second clock behind CURRENT_TIMESTAMP
MaxClock == 1
\* last id AUTOINCREMENT hands out
MaxId == 2
\* most characters a form holds
MaxTyped == 2
\* most commands started and not yet delivered
MaxInFlight == 2
\* most keys pressed in a run
MaxKeys == 7

\* most tea.Quit commands and QuitMsg messages outstanding at once
MaxQuits == 2

\* textinput CharLimit of the title and author fields
CharLimit == 255
\* textarea CharLimit of the notes field
NotesCharLimit == 1000
\* books the list shows at a time
pageSize == 3

(***************************************************************************)
(* Strings.                                                                *)
(***************************************************************************)
Chars == {"a", " "}

Strs(n) == UNION {[1..k -> Chars] : k \in 0..n}

RECURSIVE TrimLeft(_)
TrimLeft(s) ==
  IF s = <<>> THEN s
  ELSE IF Head(s) = " " THEN TrimLeft(Tail(s)) ELSE s

RECURSIVE TrimRight(_)
TrimRight(s) ==
  IF s = <<>> THEN s
  ELSE IF s[Len(s)] = " " THEN TrimRight(SubSeq(s, 1, Len(s) - 1)) ELSE s

\* no trim at all
TrimSpaceNone(s) == s

\* strings.TrimSpace
TrimSpace(s) == TrimRight(TrimLeft(s))

(***************************************************************************)
(* The Record Store: table books of internal/database.                     *)
(***************************************************************************)
Paperback == "paperback"
Hardback  == "hardback"
Audio     == "audio"
Digital   == "digital"

\* []models.BookType{Paperback, Hardback, Audio, Digital}
bookTypes == <<Paperback, Hardback, Audio, Digital>>

VARIABLES
  rows,     \* the table's rows, in rowid order
  seq,      \* sqlite_sequence: the largest id AUTOINCREMENT has handed out
  clock,    \* CURRENT_TIMESTAMP, in whole seconds
  last      \* the store call made last, with its arguments and its result; in
            \* the program, the update or delete made last, an update with the
            \* values submitted

NoErr == "nil"
ValidationErr == "title, author, and type are required"
StorageErr == "storage"

Ids(rs) == {rs[i].id : i \in 1..Len(rs)}

RowOf(rs, id) == rs[CHOOSE i \in 1..Len(rs) : rs[i].id = id]

NoCall == [op |-> "open", id |-> 0, err |-> NoErr, exec |-> FALSE, hit |-> 0,
           before |-> 0]

\* the updated_at of the record with this id, 0 when there is none
StampOf(rs, id) == IF id \in Ids(rs) THEN RowOf(rs, id).updated_at ELSE 0

Hits(rs, id) == Cardinality({i \in 1..Len(rs) : rs[i].id = id})

\* a count of the distinct titles
GetBookCountByTitle(rs) == Cardinality({rs[i].title : i \in 1..Len(rs)})

\* GetBookCount: SELECT COUNT(*) FROM books
GetBookCount(rs) == Len(rs)

\* a validation that only looks at the title
InvalidTitleOnly(title, author) == title = <<>>

\* the required-field check of SaveBook and UpdateBook, on the trimmed values
Invalid(title, author) == title = <<>> \/ author = <<>>

\* an insert that leaves updated_at without a value
InsertRowUnstamped(rs, sq, now, title, author, bookType, notes) ==
  Append(rs, [id |-> sq + 1, title |-> title, author |-> author,
              type |-> bookType, notes |-> notes,
              created_at |-> now, updated_at |-> 0])

\* INSERT INTO books (title, author, type, notes): the store assigns the id and
\* both timestamps
InsertRow(rs, sq, now, title, author, bookType, notes) ==
  Append(rs, [id |-> sq + 1, title |-> title, author |-> author,
              type |-> bookType, notes |-> notes,
              created_at |-> now, updated_at |-> now])

\* SaveBook: trims, validates, then inserts; ioFails is the driver's Exec failing
SaveBook(rs, sq, now, title, author, bookType, notes, ioFails) ==
  LET t == TrimSpace(title)
      a == TrimSpace(author)
      n == TrimSpace(notes)
  IN IF Invalid(t, a)
       THEN [rows |-> rs, seq |-> sq, err |-> ValidationErr, exec |-> FALSE]
     ELSE IF ioFails
       THEN [rows |-> rs, seq |-> sq, err |-> StorageErr, exec |-> TRUE]
     ELSE [rows |-> InsertRow(rs, sq, now, t, a, bookType, n),
           seq |-> sq + 1, err |-> NoErr, exec |-> TRUE]

\* an update that leaves updated_at alone
UpdateRowKeepStamp(r, now, title, author, bookType, notes) ==
  [r EXCEPT !.title = title, !.author = author, !.type = bookType,
            !.notes = notes]

\* UPDATE books SET title, author, type, notes, updated_at = CURRENT_TIMESTAMP
UpdateRow(r, now, title, author, bookType, notes) ==
  [r EXCEPT !.title = title, !.author = author, !.type = bookType,
            !.notes = notes, !.updated_at = now]

\* an update without its WHERE clause
UpdateBookEvery(rs, sq, now, id, title, author, bookType, notes, ioFails) ==
  LET t == TrimSpace(title)
      a == TrimSpace(author)
      n == TrimSpace(notes)
  IN IF Invalid(t, a)
       THEN [rows |-> rs, seq |-> sq, err |-> ValidationErr, exec |-> FALSE]
     ELSE IF ioFails
       THEN [rows |-> rs, seq |-> sq, err |-> StorageErr, exec |-> TRUE]
     ELSE [rows |-> [i \in 1..Len(rs) |-> UpdateRow(rs[i], now, t, a, bookType, n)],
           seq |-> sq, err |-> NoErr, exec |-> TRUE]

\* UpdateBook: trims, validates, then updates the rows WHERE id = ?
UpdateBook(rs, sq, now, id, title, author, bookType, notes, ioFails) ==
  LET t == TrimSpace(title)
      a == TrimSpace(author)
      n == TrimSpace(notes)
  IN IF Invalid(t, a)
       THEN [rows |-> rs, seq |-> sq, err |-> ValidationErr, exec |-> FALSE]
     ELSE IF ioFails
       THEN [rows |-> rs, seq |-> sq, err |-> StorageErr, exec |-> TRUE]
     ELSE [rows |-> [i \in 1..Len(rs) |->
                       IF rs[i].id = id
                         THEN UpdateRow(rs[i], now, t, a, bookType, n)
                         ELSE rs[i]],
           seq |-> sq, err |-> NoErr, exec |-> TRUE]

\* a delete that removes the first row whatever the id
DeleteFirstRow(rs, id) == IF rs = <<>> THEN rs ELSE Tail(rs)

\* DELETE FROM books WHERE id = ?
DeleteRows(rs, id) == SelectSeq(rs, LAMBDA r : r.id # id)

\* DeleteBook
DeleteBook(rs, sq, id, ioFails) ==
  IF ioFails
    THEN [rows |-> rs, seq |-> sq, err |-> StorageErr, exec |-> TRUE]
    ELSE [rows |-> DeleteRows(rs, id), seq |-> sq, err |-> NoErr, exec |-> TRUE]

\* the orders ORDER BY created_at DESC allows: newest first, ties in any order
IsNewestFirst(bs) ==
  \A i \in 1..Len(bs) - 1 : bs[i].created_at >= bs[i + 1].created_at

\* LoadBooks: every result SELECT ... ORDER BY created_at DESC may return
LoadBooks(rs) ==
  {[i \in 1..Len(rs) |-> rs[p[i]]] :
     p \in {q \in [1..Len(rs) -> 1..Len(rs)] :
              /\ \A i, j \in 1..Len(rs) : i # j => q[i] # q[j]
              /\ IsNewestFirst([i \in 1..Len(rs) |-> rs[q[i]]])}}

(***************************************************************************)
(* The bubbles widgets the forms are built from.  A textinput and a        *)
(* single-line textarea are a value, a cursor position and a focus flag.   *)
(***************************************************************************)
\* textinput.New(), textarea.New(): empty, cursor at 0, not focused
NewInput == [value |-> <<>>, pos |-> 0, focus |-> FALSE]

Focus(w) == [w EXCEPT !.focus = TRUE]

Blur(w) == [w EXCEPT !.focus = FALSE]

CursorEnd(w) == [w EXCEPT !.pos = Len(w.value)]

CursorStart(w) == [w EXCEPT !.pos = 0]

Truncate(s, limit) == IF Len(s) > limit THEN SubSeq(s, 1, limit) ELSE s

\* textinput.SetValue: the value cut to the limit; the cursor goes to the end
\* when the input was empty with the cursor at 0 or the cursor is now past the end
SetValue(w, s) ==
  LET v == Truncate(s, CharLimit)
  IN [w EXCEPT !.value = v,
               !.pos = IF (w.pos = 0 /\ w.value = <<>>) \/ w.pos > Len(v)
                         THEN Len(v) ELSE w.pos]

\* textarea.SetValue: Reset, then InsertString, which leaves the cursor at the end
TextAreaSetValue(w, s) ==
  LET v == Truncate(s, NotesCharLimit)
  IN [w EXCEPT !.value = v, !.pos = Len(v)]

\* the keys that reach a widget as text
Runes == {"a", " ", "q", "k", "j", "/", "~"}

InsertRune(w, c, limit) ==
  IF Len(w.value) >= limit THEN w
  ELSE [w EXCEPT !.value = SubSeq(w.value, 1, w.pos) \o <<c>>
                            \o SubSeq(w.value, w.pos + 1, Len(w.value)),
                 !.pos = w.pos + 1]

DeleteCharacterBackward(w) ==
  IF w.pos = 0 THEN w
  ELSE [w EXCEPT !.value = SubSeq(w.value, 1, w.pos - 1)
                            \o SubSeq(w.value, w.pos + 1, Len(w.value)),
                 !.pos = w.pos - 1]

\* textinput.Update and textarea.Update on a key: nothing unless focused
InputUpdate(w, key, limit) ==
  IF ~w.focus THEN w
  ELSE IF key = "left" THEN [w EXCEPT !.pos = IF w.pos > 0 THEN w.pos - 1 ELSE 0]
  ELSE IF key = "right"
    THEN [w EXCEPT !.pos = IF w.pos < Len(w.value) THEN w.pos + 1 ELSE w.pos]
  ELSE IF key = "backspace" THEN DeleteCharacterBackward(w)
  ELSE IF key \in Runes THEN InsertRune(w, key, limit)
  ELSE w

(***************************************************************************)
(* Messages and commands of the Bubble Tea program.                        *)
(***************************************************************************)
MenuScreen == "MenuScreen"
AddBookScreen == "AddBookScreen"
ListBooksScreen == "ListBooksScreen"
BookDetailScreen == "BookDetailScreen"
EditBookScreen == "EditBookScreen"
UtilitiesScreen == "UtilitiesScreen"
ThemeScreen == "ThemeScreen"
ExportScreen == "ExportScreen"
BackupScreen == "BackupScreen"

KeyMsg(key) == [type |-> "KeyMsg", key |-> key]
SaveMsg(err) == [type |-> "SaveMsg", err |-> err]
UpdateMsg(err) == [type |-> "UpdateMsg", err |-> err]
DeleteMsg(err) == [type |-> "DeleteMsg", err |-> err]
LoadBooksMsg(books, err) == [type |-> "LoadBooksMsg", books |-> books, err |-> err]
BackupMsg(err) == [type |-> "BackupMsg", err |-> err]
SwitchScreenMsg(screen) == [type |-> "SwitchScreenMsg", screen |-> screen, err |-> NoErr]

\* a nil tea.Cmd, and tea.Quit
NoCmd == [kind |-> "nil"]
Quit == [kind |-> "quit"]

\* len(m.inputs) of both forms: title and author
NumInputs == 2

\* the selector one step back and one step on, wrapping
TypeBefore(t) == IF t - 1 < 0 THEN Len(bookTypes) - 1 ELSE t - 1

\* a step on that stops at the last choice
TypeAfterClamped(t) == IF t + 1 >= Len(bookTypes) THEN t ELSE t + 1

TypeAfter(t) == IF t + 1 >= Len(bookTypes) THEN 0 ELSE t + 1

(***************************************************************************)
(* AddBookModel: the Add form.  focused is 0 the title, 1 the author, 2    *)
(* the type selector, 3 the notes, 4 the save button; inputs[i + 1] is the *)
(* code's m.inputs[i].                                                     *)
(***************************************************************************)
NewAddBookModel ==
  [inputs |-> <<Focus(NewInput), NewInput>>,
   textarea |-> NewInput,
   selectedType |-> 0,
   focused |-> 0,
   err |-> NoErr,
   saved |-> FALSE]

\* saveBookCmd: the closure keeps its own copy of selectedType and of the
\* textarea, and shares the inputs with the form it was made from.  notes is
\* the text of the textarea as the copy was made; shared is what the array of
\* the copy holds, which the form writes to for as long as attached, that is
\* until the form's textarea is given a new array; read is what the closure
\* has read so far: the title, the author, the notes
saveBookCmd(m) ==
  [kind |-> "save", id |-> 0, selectedType |-> m.selectedType,
   notes |-> m.textarea.value, shared |-> m.textarea.value, attached |-> TRUE,
   read |-> <<>>]

\* only up, down and enter move between fields
AddBookMove(focused, s) ==
  IF s = "up" THEN focused - 1
  ELSE IF s = "down" \/ s = "enter" THEN focused + 1
  ELSE focused

AddBookWrap(focused) ==
  IF focused >= NumInputs + 3 THEN 0
  ELSE IF focused < 0 THEN NumInputs + 2
  ELSE focused

\* the focus given to the widgets after a navigation key
AddBookFocus(m) ==
  [m EXCEPT
     !.inputs = [i \in 1..NumInputs |->
                   IF i - 1 = m.focused THEN CursorEnd(Focus(m.inputs[i]))
                   ELSE Blur(m.inputs[i])],
     !.textarea = IF m.focused = NumInputs + 1 THEN Focus(m.textarea)
                  ELSE Blur(m.textarea)]

\* updateInputs: every widget is handed the message
AddBookUpdateInputs(m, msg) ==
  IF msg.type # "KeyMsg" THEN m
  ELSE [m EXCEPT
          !.inputs = [i \in 1..NumInputs |-> InputUpdate(m.inputs[i], msg.key, CharLimit)],
          !.textarea = InputUpdate(m.textarea, msg.key, NotesCharLimit)]

\* SaveMsg without error
AddBookSaved(m) ==
  [m EXCEPT !.saved = TRUE,
            !.inputs = <<Focus(SetValue(m.inputs[1], <<>>)),
                         SetValue(m.inputs[2], <<>>)>>,
            !.textarea = TextAreaSetValue(m.textarea, <<>>),
            !.focused = 0]

\* AddBookModel.Update: the model, the command and the screen it returns
AddBookUpdate(m, msg) ==
  LET stay(n) == [m |-> n, cmd |-> NoCmd, screen |-> AddBookScreen]
      s == msg.key
  IN IF msg.type = "KeyMsg" THEN
       IF s = "esc"
         THEN [m |-> [m EXCEPT !.err = NoErr, !.saved = FALSE], cmd |-> NoCmd,
               screen |-> MenuScreen]
       ELSE IF s = "ctrl+a"
         THEN stay(IF m.focused < NumInputs
                     THEN [m EXCEPT !.inputs[m.focused + 1] = CursorStart(@)] ELSE m)
       ELSE IF s = "ctrl+e"
         THEN stay(IF m.focused < NumInputs
                     THEN [m EXCEPT !.inputs[m.focused + 1] = CursorEnd(@)] ELSE m)
       ELSE IF s \in {"tab", "shift+tab", "enter", "up", "down"}
         THEN IF s = "enter" /\ m.focused = NumInputs + 2
                THEN [m |-> m, cmd |-> saveBookCmd(m), screen |-> AddBookScreen]
              ELSE IF m.focused = NumInputs /\ (s = "tab" \/ s = "shift+tab")
                THEN stay([m EXCEPT !.selectedType =
                             IF s = "shift+tab" THEN TypeBefore(@) ELSE TypeAfter(@)])
              ELSE stay(AddBookFocus(
                     [m EXCEPT !.focused = AddBookWrap(AddBookMove(m.focused, s))]))
       ELSE IF s \in {"left", "right"} /\ m.focused = NumInputs
         THEN stay([m EXCEPT !.selectedType =
                      IF s = "left" THEN TypeBefore(@) ELSE TypeAfter(@)])
       ELSE stay(AddBookUpdateInputs(m, msg))
     ELSE IF msg.type = "SaveMsg" THEN
       IF msg.err # NoErr THEN stay([m EXCEPT !.err = msg.err])
       ELSE stay(AddBookSaved(m))
     ELSE stay(AddBookUpdateInputs(m, msg))

\* a Reset that leaves the selector where it stands
ResetKeepingType(m) ==
  [m EXCEPT !.err = NoErr, !.saved = FALSE, !.focused = 0,
            !.inputs = <<Focus(SetValue(m.inputs[1], <<>>)),
                         Blur(SetValue(m.inputs[2], <<>>))>>,
            !.textarea = Blur(TextAreaSetValue(m.textarea, <<>>))]

\* Reset: the form as it is shown on the next visit
Reset(m) ==
  [m EXCEPT !.err = NoErr, !.saved = FALSE, !.focused = 0, !.selectedType = 0,
            !.inputs = <<Focus(SetValue(m.inputs[1], <<>>)),
                         Blur(SetValue(m.inputs[2], <<>>))>>,
            !.textarea = Blur(TextAreaSetValue(m.textarea, <<>>))]


(***************************************************************************)
(* Pointers to books.  A *models.Book points into the backing array of a   *)
(* list: "books" is the array ListBooksModel.books refers to now, "old" an *)
(* array the list has since replaced, "nil" no book.  i is the 1-based     *)
(* place in the array.                                                     *)
(***************************************************************************)
NilBook == [arr |-> "nil", i |-> 0]

BookAt(i) == [arr |-> "books", i |-> i]

\* what becomes of a pointer when the list takes a new array
Outdated(p) == IF p.arr = "books" THEN [p EXCEPT !.arr = "old"] ELSE p

(***************************************************************************)
(* EditModel: the Edit form, with the slots of the Add form.               *)
(***************************************************************************)
\* factory.CreateTitleInput starts focused
NewEditModel ==
  [SelectedBook |-> NilBook,
   inputs |-> <<Focus(NewInput), NewInput>>,
   textarea |-> NewInput,
   selectedType |-> 0,
   focused |-> 0,
   err |-> NoErr]

\* the place of a type in bookTypes, counted from 0; the selector stays where
\* it is for a type that is not in the list
TypeIndex(t, selectedType) ==
  IF \E i \in 1..Len(bookTypes) : bookTypes[i] = t
    THEN (CHOOSE i \in 1..Len(bookTypes) : bookTypes[i] = t) - 1
    ELSE selectedType

\* EditModel.SetBook
EditSetBook(m, p, book) ==
  [m EXCEPT !.SelectedBook = p,
            !.focused = 0,
            !.err = NoErr,
            !.inputs = <<CursorEnd(Focus(SetValue(m.inputs[1], book.title))),
                         Blur(SetValue(m.inputs[2], book.author))>>,
            !.textarea = Blur(TextAreaSetValue(m.textarea, book.notes)),
            !.selectedType = TypeIndex(book.type, m.selectedType)]

\* updateBookCmd: the id is read through SelectedBook, the rest as in saveBookCmd
updateBookCmd(m, books) ==
  [kind |-> "update", id |-> books[m.SelectedBook.i].id,
   selectedType |-> m.selectedType, notes |-> m.textarea.value,
   shared |-> m.textarea.value, attached |-> TRUE, read |-> <<>>]

EditMove(focused, s) ==
  IF s = "up" THEN focused - 1
  ELSE IF s = "down" \/ s = "enter" THEN focused + 1
  ELSE focused

EditWrap(focused) ==
  IF focused > NumInputs + 2 THEN 0
  ELSE IF focused < 0 THEN NumInputs + 2
  ELSE focused

EditFocus(m) ==
  [m EXCEPT
     !.inputs = [i \in 1..NumInputs |->
                   IF i - 1 = m.focused THEN CursorEnd(Focus(m.inputs[i]))
                   ELSE Blur(m.inputs[i])],
     !.textarea = IF m.focused = NumInputs + 1 THEN Focus(m.textarea)
                  ELSE Blur(m.textarea)]

\* an updateInputs that moves the focus to the title on a message that is no key
EditUpdateInputsRefocusing(m, msg) ==
  IF msg.type # "KeyMsg" THEN [m EXCEPT !.focused = 0]
  ELSE [m EXCEPT
          !.inputs = [i \in 1..NumInputs |-> InputUpdate(m.inputs[i], msg.key, CharLimit)],
          !.textarea = InputUpdate(m.textarea, msg.key, NotesCharLimit)]

EditUpdateInputs(m, msg) ==
  IF msg.type # "KeyMsg" THEN m
  ELSE [m EXCEPT
          !.inputs = [i \in 1..NumInputs |-> InputUpdate(m.inputs[i], msg.key, CharLimit)],
          !.textarea = InputUpdate(m.textarea, msg.key, NotesCharLimit)]

\* UpdateMsg without error: the form's values are written to the book
\* SelectedBook points to
EditCopyBack(m, books) ==
  [books EXCEPT ![m.SelectedBook.i] =
     [@ EXCEPT !.title = m.inputs[1].value,
               !.author = m.inputs[2].value,
               !.type = bookTypes[m.selectedType + 1],
               !.notes = m.textarea.value]]

\* EditModel.Update: the model, the command, the screen and the list's array
EditUpdate(m, msg, books) ==
  LET stay(n) == [m |-> n, cmd |-> NoCmd, screen |-> EditBookScreen, books |-> books]
      s == msg.key
  IN IF msg.type = "KeyMsg" THEN
       IF s = "esc"
         THEN [m |-> [m EXCEPT !.err = NoErr], cmd |-> NoCmd,
               screen |-> BookDetailScreen, books |-> books]
       ELSE IF s = "ctrl+a"
         THEN stay(IF m.focused < NumInputs
                     THEN [m EXCEPT !.inputs[m.focused + 1] = CursorStart(@)] ELSE m)
       ELSE IF s = "ctrl+e"
         THEN stay(IF m.focused < NumInputs
                     THEN [m EXCEPT !.inputs[m.focused + 1] = CursorEnd(@)] ELSE m)
       ELSE IF s \in {"tab", "shift+tab", "enter", "up", "down"}
         THEN IF s = "enter" /\ m.focused = NumInputs + 2
                THEN [m |-> m, cmd |-> updateBookCmd(m, books),
                      screen |-> EditBookScreen, books |-> books]
              ELSE IF m.focused = NumInputs /\ (s = "tab" \/ s = "shift+tab")
                THEN stay([m EXCEPT !.selectedType =
                             IF s = "shift+tab" THEN TypeBefore(@) ELSE TypeAfter(@)])
              ELSE stay(EditFocus(
                     [m EXCEPT !.focused = EditWrap(EditMove(m.focused, s))]))
       ELSE IF s \in {"left", "right"} /\ m.focused = NumInputs
         THEN stay([m EXCEPT !.selectedType =
                      IF s = "left" THEN TypeBefore(@) ELSE TypeAfter(@)])
       ELSE stay(EditUpdateInputs(m, msg))
     ELSE IF msg.type = "UpdateMsg" THEN
       IF msg.err # NoErr THEN stay(EditUpdateInputs([m EXCEPT !.err = msg.err], msg))
       ELSE [m |-> m, cmd |-> NoCmd, screen |-> BookDetailScreen,
             books |-> EditCopyBack(m, books)]
     ELSE stay(EditUpdateInputs(m, msg))

(***************************************************************************)
(* ListBooksModel, DetailModel and MenuModel.                              *)
(***************************************************************************)
NewListBooksModel ==
  [books |-> <<>>, index |-> 0, offset |-> 0, err |-> NoErr, deleted |-> FALSE]

\* a list whose selection wraps from the last book to the first
ListBooksUpdateWrapping(m, msg) ==
  LET stay(n) == [m |-> n, cmd |-> NoCmd, screen |-> ListBooksScreen,
                  selectedBook |-> NilBook]
      s == msg.key
  IN IF msg.type = "KeyMsg" THEN
       IF s = "esc"
         THEN [m |-> m, cmd |-> NoCmd, screen |-> MenuScreen, selectedBook |-> NilBook]
       ELSE IF s \in {"up", "k"}
         THEN stay(IF m.index > 0
                     THEN [m EXCEPT !.index = m.index - 1,
                                    !.offset = IF m.index - 1 < m.offset
                                                 THEN m.index - 1 ELSE m.offset]
                     ELSE m)
       ELSE IF s \in {"down", "j"}
         THEN stay(IF m.index < Len(m.books) - 1
                     THEN [m EXCEPT !.index = m.index + 1,
                                    !.offset = IF m.index + 1 >= m.offset + pageSize
                                                 THEN m.index + 1 - pageSize + 1
                                                 ELSE m.offset]
                     ELSE [m EXCEPT !.index = 0, !.offset = 0])
       ELSE IF s = "enter" /\ Len(m.books) > 0
         THEN [m |-> m, cmd |-> NoCmd, screen |-> BookDetailScreen,
               selectedBook |-> BookAt(m.index + 1)]
       ELSE stay(m)
     ELSE IF msg.type = "LoadBooksMsg" THEN
       IF msg.err # NoErr THEN stay([m EXCEPT !.err = msg.err])
       ELSE stay([m EXCEPT !.books = msg.books,
                           !.index = IF m.index >= Len(msg.books) /\ Len(msg.books) > 0
                                       THEN Len(msg.books) - 1 ELSE m.index])
     ELSE IF msg.type = "DeleteMsg" THEN
       IF msg.err # NoErr THEN stay([m EXCEPT !.err = msg.err])
       ELSE stay([m EXCEPT !.deleted = TRUE])
     ELSE stay(m)

\* a list that keeps its index whatever is loaded
ListBooksUpdateUnclamped(m, msg) ==
  LET stay(n) == [m |-> n, cmd |-> NoCmd, screen |-> ListBooksScreen,
                  selectedBook |-> NilBook]
      s == msg.key
  IN IF msg.type = "KeyMsg" THEN
       IF s = "esc"
         THEN [m |-> m, cmd |-> NoCmd, screen |-> MenuScreen, selectedBook |-> NilBook]
       ELSE IF s \in {"up", "k"}
         THEN stay(IF m.index > 0
                     THEN [m EXCEPT !.index = m.index - 1,
                                    !.offset = IF m.index - 1 < m.offset
                                                 THEN m.index - 1 ELSE m.offset]
                     ELSE m)
       ELSE IF s \in {"down", "j"}
         THEN stay(IF m.index < Len(m.books) - 1
                     THEN [m EXCEPT !.index = m.index + 1,
                                    !.offset = IF m.index + 1 >= m.offset + pageSize
                                                 THEN m.index + 1 - pageSize + 1
                                                 ELSE m.offset]
                     ELSE m)
       ELSE IF s = "enter" /\ Len(m.books) > 0
         THEN [m |-> m, cmd |-> NoCmd, screen |-> BookDetailScreen,
               selectedBook |-> BookAt(m.index + 1)]
       ELSE stay(m)
     ELSE IF msg.type = "LoadBooksMsg" THEN
       IF msg.err # NoErr THEN stay([m EXCEPT !.err = msg.err])
       ELSE stay([m EXCEPT !.books = msg.books])
     ELSE IF msg.type = "DeleteMsg" THEN
       IF msg.err # NoErr THEN stay([m EXCEPT !.err = msg.err])
       ELSE stay([m EXCEPT !.deleted = TRUE])
     ELSE stay(m)

\* ListBooksModel.Update: the model, the command, the screen and the book chosen
ListBooksUpdate(m, msg) ==
  LET stay(n) == [m |-> n, cmd |-> NoCmd, screen |-> ListBooksScreen,
                  selectedBook |-> NilBook]
      s == msg.key
  IN IF msg.type = "KeyMsg" THEN
       IF s = "esc"
         THEN [m |-> m, cmd |-> NoCmd, screen |-> MenuScreen, selectedBook |-> NilBook]
       ELSE IF s \in {"up", "k"}
         THEN stay(IF m.index > 0
                     THEN [m EXCEPT !.index = m.index - 1,
                                    !.offset = IF m.index - 1 < m.offset
                                                 THEN m.index - 1 ELSE m.offset]
                     ELSE m)
       ELSE IF s \in {"down", "j"}
         THEN stay(IF m.index < Len(m.books) - 1
                     THEN [m EXCEPT !.index = m.index + 1,
                                    !.offset = IF m.index + 1 >= m.offset + pageSize
                                                 THEN m.index + 1 - pageSize + 1
                                                 ELSE m.offset]
                     ELSE m)
       ELSE IF s = "enter" /\ Len(m.books) > 0
         THEN [m |-> m, cmd |-> NoCmd, screen |-> BookDetailScreen,
               selectedBook |-> BookAt(m.index + 1)]
       ELSE stay(m)
     ELSE IF msg.type = "LoadBooksMsg" THEN
       IF msg.err # NoErr THEN stay([m EXCEPT !.err = msg.err])
       ELSE stay([m EXCEPT !.books = msg.books,
                           !.index = IF m.index >= Len(msg.books) /\ Len(msg.books) > 0
                                       THEN Len(msg.books) - 1 ELSE m.index])
     ELSE IF msg.type = "DeleteMsg" THEN
       IF msg.err # NoErr THEN stay([m EXCEPT !.err = msg.err])
       ELSE stay([m EXCEPT !.deleted = TRUE])
     ELSE stay(m)

ClearDeleted(m) == [m EXCEPT !.deleted = FALSE]

actions == <<"Edit Book", "Delete Book", "Back to List">>

NewDetailModel ==
  [SelectedBook |-> NilBook, index |-> 0, err |-> NoErr, updated |-> FALSE]

\* DetailModel.SetBook
DetailSetBook(m, p) ==
  [m EXCEPT !.SelectedBook = p, !.index = 0, !.err = NoErr, !.updated = FALSE]

ClearUpdated(m) == [m EXCEPT !.updated = FALSE]

\* deleteBookCmd: the id is read through SelectedBook
deleteBookCmd(m, books) ==
  [kind |-> "delete", id |-> books[m.SelectedBook.i].id, selectedType |-> 0,
   notes |-> <<>>]

\* loadBooksCmd of the detail screen and LoadBooksCmd of the menu
LoadBooksCmd == [kind |-> "load", id |-> 0, selectedType |-> 0, notes |-> <<>>]

\* DetailModel.Update: the model, the command and the screen
DetailUpdate(m, msg, books) ==
  LET stay(n) == [m |-> n, cmd |-> NoCmd, screen |-> BookDetailScreen]
      s == msg.key
  IN IF msg.type = "KeyMsg" THEN
       IF s = "esc" THEN [m |-> m, cmd |-> NoCmd, screen |-> ListBooksScreen]
       ELSE IF s \in {"up", "k"}
         THEN stay(IF m.index > 0 THEN [m EXCEPT !.index = m.index - 1] ELSE m)
       ELSE IF s \in {"down", "j"}
         THEN stay(IF m.index < Len(actions) - 1
                     THEN [m EXCEPT !.index = m.index + 1] ELSE m)
       ELSE IF s = "enter"
         THEN IF actions[m.index + 1] = "Edit Book"
                THEN [m |-> m, cmd |-> NoCmd, screen |-> EditBookScreen]
              ELSE IF actions[m.index + 1] = "Delete Book"
                THEN [m |-> m, cmd |-> deleteBookCmd(m, books),
                      screen |-> BookDetailScreen]
              ELSE [m |-> m, cmd |-> NoCmd, screen |-> ListBooksScreen]
       ELSE stay(m)
     ELSE IF msg.type = "UpdateMsg" THEN
       IF msg.err # NoErr THEN stay([m EXCEPT !.err = msg.err])
       ELSE stay([m EXCEPT !.updated = TRUE])
     ELSE IF msg.type = "DeleteMsg" THEN
       IF msg.err # NoErr THEN stay([m EXCEPT !.err = msg.err])
       ELSE [m |-> m, cmd |-> LoadBooksCmd, screen |-> ListBooksScreen]
     ELSE stay(m)

ItemsWithBooks == <<"Add Book", "View Books", "Utilities", "Theme", "Quit">>
ItemsWithoutBooks == <<"Add Book", "Theme", "Quit">>

\* updateMenuItems: the items for the count the store reports, the index
\* brought back inside them
updateMenuItems(m, count, countFails) ==
  LET items == IF ~countFails /\ count > 0 THEN ItemsWithBooks ELSE ItemsWithoutBooks
  IN IF countFails THEN [m EXCEPT !.items = items]
     ELSE [m EXCEPT !.items = items,
                    !.index = IF m.index >= Len(items) THEN Len(items) - 1 ELSE m.index]

NewMenuModel(count, countFails) ==
  updateMenuItems([items |-> <<>>, index |-> 0], count, countFails)

\* MenuModel.Update: the model, the command and the screen
MenuUpdate(m, msg) ==
  LET stay(n) == [m |-> n, cmd |-> NoCmd, screen |-> MenuScreen]
      s == msg.key
  IN IF s \in {"up", "k"}
       THEN stay(IF m.index > 0 THEN [m EXCEPT !.index = m.index - 1] ELSE m)
     ELSE IF s \in {"down", "j"}
       THEN stay(IF m.index < Len(m.items) - 1
                   THEN [m EXCEPT !.index = m.index + 1] ELSE m)
     ELSE IF s = "enter"
       THEN LET selectedItem == m.items[m.index + 1]
            IN IF selectedItem = "Add Book"
                 THEN [m |-> m, cmd |-> NoCmd, screen |-> AddBookScreen]
               ELSE IF selectedItem = "View Books"
                 THEN [m |-> m, cmd |-> LoadBooksCmd, screen |-> ListBooksScreen]
               ELSE IF selectedItem = "Utilities"
                 THEN [m |-> m, cmd |-> NoCmd, screen |-> UtilitiesScreen]
               ELSE IF selectedItem = "Theme"
                 THEN [m |-> m, cmd |-> NoCmd, screen |-> ThemeScreen]
               ELSE [m |-> m, cmd |-> Quit, screen |-> MenuScreen]
     ELSE stay(m)

(***************************************************************************)
(* UtilitiesModel and ExportScreen.  The export flow has four states; its  *)
(* path input is a textinput without a limit.  Paths are sequences of      *)
(* characters.                                                             *)
(***************************************************************************)
utilitiesItems == <<"Export", "Backup", "Back to Main Menu">>

NewUtilitiesModel == [index |-> 0]

\* UtilitiesModel.Update: the model, the command and the screen
UtilitiesUpdate(u, msg) ==
  LET stay(n) == [m |-> n, cmd |-> NoCmd, screen |-> UtilitiesScreen]
      s == msg.key
  IN IF s \in {"up", "k"}
       THEN stay(IF u.index > 0 THEN [u EXCEPT !.index = u.index - 1] ELSE u)
     ELSE IF s \in {"down", "j"}
       THEN stay(IF u.index < Len(utilitiesItems) - 1
                   THEN [u EXCEPT !.index = u.index + 1] ELSE u)
     ELSE IF s = "enter"
       THEN LET selectedItem == utilitiesItems[u.index + 1]
            IN IF selectedItem = "Export"
                 THEN [m |-> u, cmd |-> NoCmd, screen |-> ExportScreen]
               ELSE IF selectedItem = "Backup"
                 THEN [m |-> u, cmd |-> NoCmd, screen |-> BackupScreen]
               ELSE [m |-> u, cmd |-> NoCmd, screen |-> MenuScreen]
     ELSE stay(u)

PathInput == "PathInput"
FormatSelection == "FormatSelection"
Exporting == "Exporting"
ShowResult == "ShowResult"

formatItems == <<"JSON Format", "Markdown Format", "Back to Utilities",
                 "Back to Main Menu">>

\* what os.UserHomeDir returns: the home directory, or "" with an error when
\* $HOME is not set
HomeDir == <<"/", "h">>
NoHome == <<>>

\* the elements of a path between its separators
RECURSIVE SplitPath(_)
SplitPath(path) ==
  IF path = <<>> THEN <<<<>>>>
  ELSE LET rest == SplitPath(Tail(path))
       IN IF Head(path) = "/" THEN <<<<>>>> \o rest
          ELSE <<<<Head(path)>> \o Head(rest)>> \o Tail(rest)

\* the elements put together with a separator between them
RECURSIVE JoinElems(_)
JoinElems(elems) ==
  IF elems = <<>> THEN <<>>
  ELSE IF Len(elems) = 1 THEN elems[1]
  ELSE elems[1] \o <<"/">> \o JoinElems(Tail(elems))

\* the elements filepath.Clean keeps: an empty element and "." are dropped,
\* ".." takes back the element before it, and is dropped at the root
RECURSIVE Lexical(_, _, _)
Lexical(elems, out, rooted) ==
  IF elems = <<>> THEN out
  ELSE LET e == Head(elems)
       IN IF e = <<>> \/ e = <<".">> THEN Lexical(Tail(elems), out, rooted)
          ELSE IF e = <<".", ".">> THEN
            IF out # <<>> /\ out[Len(out)] # <<".", ".">>
              THEN Lexical(Tail(elems), SubSeq(out, 1, Len(out) - 1), rooted)
            ELSE IF rooted THEN Lexical(Tail(elems), out, rooted)
            ELSE Lexical(Tail(elems), Append(out, e), rooted)
          ELSE Lexical(Tail(elems), Append(out, e), rooted)

\* filepath.Clean: the shortest path that names the same file
Clean(path) ==
  IF path = <<>> THEN <<".">>
  ELSE LET rooted == Head(path) = "/"
           out == JoinElems(Lexical(SplitPath(path), <<>>, rooted))
       IN IF rooted THEN <<"/">> \o out
          ELSE IF out = <<>> THEN <<".">>
          ELSE out

\* filepath.Join: the elements that are not empty, joined and cleaned; the
\* name of a file or of a directory of the program is one character here
Join(elems) ==
  LET given == SelectSeq(elems, LAMBDA e : e # <<>>)
  IN IF given = <<>> THEN <<>> ELSE Clean(JoinElems(given))

\* filepath.Join(homeDir, ".libros", "exports"): relative when homeDir is ""
ExportsDirIn(home) == Join(<<home, <<".libros">>, <<"exports">>>>)

\* the directories of the file system that exist and can be written to
WritableDirs == {<<"/">>, <<"/", "/">>, HomeDir, HomeDir \o <<"/">>}

\* validatePath: os.Stat and os.Create succeed
validatePath(path) == path \in WritableDirs

SwitchScreenCmd(screen) == [kind |-> "switch", screen |-> screen]

\* performExport: the format is bound when the command is made, the path is
\* read when it runs
performExport(format) == [kind |-> "export", format |-> format]

\* NewExportScreen: the default directory is made from the home directory
NewExportScreen(home) ==
  [state |-> PathInput, pathInput |-> Focus(NewInput), exportPath |-> <<>>,
   formatIndex |-> 0, status |-> "", isError |-> FALSE, lastExportedFile |-> <<>>,
   defaultExportsDir |-> ExportsDirIn(home)]

ClearStatus(s) ==
  [s EXCEPT !.status = "", !.isError = FALSE, !.state = PathInput,
            !.pathInput = Focus([@ EXCEPT !.value = <<>>, !.pos = 0]),
            !.formatIndex = 0, !.lastExportedFile = <<>>]

\* strings.Replace(inputPath, "~", homeDir, 1) of a path that starts with "~"
ExpandHome(inputPath, home) == home \o Tail(inputPath)

\* updatePathInput: Enter takes the default directory for an empty path and
\* an absolute path that validatePath accepts once a leading "~" has been
\* replaced by the home directory
updatePathInput(s, msg, home) ==
  LET stay(n) == [m |-> n, cmd |-> NoCmd]
      rejected(status) == stay([s EXCEPT !.status = status, !.isError = TRUE])
      inputPath == TrimSpace(s.pathInput.value)
      expanded == IF Head(inputPath) = "~" THEN ExpandHome(inputPath, home)
                  ELSE inputPath
      chosen(path) == stay([s EXCEPT !.exportPath = path, !.state = FormatSelection,
                                     !.status = "", !.isError = FALSE])
  IN IF msg.type = "KeyMsg" /\ msg.key = "enter" THEN
       IF inputPath = <<>> THEN chosen(s.defaultExportsDir)
       ELSE IF Head(inputPath) # "/" /\ Head(inputPath) # "~"
         THEN rejected("Please enter an absolute path (starting with / or ~)")
       ELSE IF Head(inputPath) = "~" /\ home = NoHome
         THEN rejected("Error getting home directory")
       ELSE IF ~validatePath(expanded) THEN rejected("no such file or directory")
       ELSE chosen(expanded)
     ELSE IF msg.type = "KeyMsg" /\ msg.key = "esc"
       THEN [m |-> s, cmd |-> SwitchScreenCmd(UtilitiesScreen)]
     ELSE IF msg.type = "KeyMsg" /\ msg.key \in {"q", "ctrl+c"}
       THEN [m |-> s, cmd |-> Quit]
     ELSE IF msg.type = "KeyMsg"
       THEN stay([s EXCEPT !.pathInput = InputUpdate(@, msg.key, Len(@.value) + 1)])
     ELSE stay(s)

updateFormatSelection(s, msg) ==
  LET stay(n) == [m |-> n, cmd |-> NoCmd]
      k == msg.key
      selectedItem == formatItems[s.formatIndex + 1]
      export(format, status, file) ==
        [m |-> [s EXCEPT !.state = Exporting, !.status = status, !.isError = FALSE,
                         !.lastExportedFile = Join(<<s.exportPath, <<file>>>>)],
         cmd |-> performExport(format)]
  IN IF msg.type # "KeyMsg" THEN stay(s)
     ELSE IF k \in {"up", "k"}
       THEN stay(IF s.formatIndex > 0 THEN [s EXCEPT !.formatIndex = @ - 1] ELSE s)
     ELSE IF k \in {"down", "j"}
       THEN stay(IF s.formatIndex < Len(formatItems) - 1
                   THEN [s EXCEPT !.formatIndex = @ + 1] ELSE s)
     ELSE IF k = "enter" THEN
       IF selectedItem = "JSON Format"
         THEN export("json", "Exporting to JSON...", "books.json")
       ELSE IF selectedItem = "Markdown Format"
         THEN export("markdown", "Exporting to Markdown...", "books.md")
       ELSE IF selectedItem = "Back to Utilities"
         THEN [m |-> s, cmd |-> SwitchScreenCmd(UtilitiesScreen)]
       ELSE [m |-> s, cmd |-> SwitchScreenCmd(MenuScreen)]
     ELSE IF k = "esc"
       THEN stay([s EXCEPT !.state = PathInput, !.pathInput = Focus(@)])
     ELSE IF k \in {"q", "ctrl+c"} THEN [m |-> s, cmd |-> Quit]
     ELSE stay(s)

updateExporting(s, msg) ==
  LET stay(n) == [m |-> n, cmd |-> NoCmd]
  IN IF msg.type = "KeyMsg" THEN
       IF msg.key = "esc" THEN [m |-> s, cmd |-> SwitchScreenCmd(UtilitiesScreen)]
       ELSE IF msg.key \in {"q", "ctrl+c"} THEN [m |-> s, cmd |-> Quit]
       ELSE stay(s)
     ELSE IF msg.type = "BackupMsg"
       THEN stay([s EXCEPT !.status = IF msg.err # NoErr THEN "Export failed"
                                     ELSE "Export completed successfully!",
                           !.isError = msg.err # NoErr,
                           !.state = ShowResult])
     ELSE stay(s)

updateShowResult(s, msg) ==
  LET stay(n) == [m |-> n, cmd |-> NoCmd]
  IN IF msg.type = "KeyMsg" /\ msg.key \in {"enter", "esc"}
       THEN stay([s EXCEPT !.state = FormatSelection, !.status = "",
                           !.isError = FALSE])
     ELSE IF msg.type = "KeyMsg" /\ msg.key \in {"q", "ctrl+c"}
       THEN [m |-> s, cmd |-> Quit]
     ELSE stay(s)

\* ExportScreen.Update: the screen and the command
ExportUpdate(s, msg, home) ==
  IF s.state = PathInput THEN updatePathInput(s, msg, home)
  ELSE IF s.state = FormatSelection THEN updateFormatSelection(s, msg)
  ELSE IF s.state = Exporting THEN updateExporting(s, msg)
  ELSE updateShowResult(s, msg)

(***************************************************************************)
(* ThemeModel and BackupScreen.  The theme chosen is kept in the file      *)
(* ~/.libros/theme.toml, which holds the name of a theme, or nothing once  *)
(* a write has failed after the file was created.                          *)
(***************************************************************************)
\* config.ThemeOptions(), by name
themeOptions == <<"Default", "Peach Red", "Surimi Orange", "Spring Blue">>

\* the outcomes of reading or writing the file
ConfigOutcomes == {"ok", "fails", "truncated"}

\* config.GetCurrentTheme: the theme of the file, the default one when
\* LoadConfig fails
GetCurrentTheme(saved, outcome) == IF outcome = "ok" THEN saved ELSE "Default"

\* config.UpdateTheme: the file after SaveConfig, and whether it failed
UpdateTheme(saved, theme, outcome) ==
  IF outcome = "ok" THEN [saved |-> theme, err |-> NoErr]
  ELSE IF outcome = "truncated" THEN [saved |-> "", err |-> StorageErr]
  ELSE [saved |-> saved, err |-> StorageErr]

\* NewThemeModel: the selection stands on the current theme, on the first
\* option when no option has its name
NewThemeModel(saved, outcome) ==
  LET currentTheme == GetCurrentTheme(saved, outcome)
  IN [index |-> IF \E i \in 1..Len(themeOptions) : themeOptions[i] = currentTheme
                  THEN (CHOOSE i \in 1..Len(themeOptions) :
                          themeOptions[i] = currentTheme) - 1
                  ELSE 0]

ThemeSelectedMsg(theme) == [type |-> "ThemeSelectedMsg", theme |-> theme, err |-> NoErr]

ThemeSelectedCmd(theme) == [kind |-> "selected", theme |-> theme]

\* tea.Batch: the commands are started together
Batch(cs) == [kind |-> "batch", cmds |-> cs]

\* ThemeModel.Update: the model, the command and the theme the file then holds
ThemeUpdate(t, msg, saved, outcome) ==
  LET stay(n) == [m |-> n, cmd |-> NoCmd, saved |-> saved]
      s == msg.key
  IN IF msg.type # "KeyMsg" THEN stay(t)
     ELSE IF s = "esc"
       THEN [m |-> t, cmd |-> SwitchScreenCmd(MenuScreen), saved |-> saved]
     ELSE IF s \in {"up", "k"}
       THEN stay(IF t.index > 0 THEN [t EXCEPT !.index = t.index - 1] ELSE t)
     ELSE IF s \in {"down", "j"}
       THEN stay(IF t.index < Len(themeOptions) - 1
                   THEN [t EXCEPT !.index = t.index + 1] ELSE t)
     ELSE IF s = "enter"
       THEN LET selectedOption == themeOptions[t.index + 1]
                r == UpdateTheme(saved, selectedOption, outcome)
            IN IF r.err # NoErr
                 THEN [m |-> t, cmd |-> SwitchScreenCmd(MenuScreen), saved |-> r.saved]
                 ELSE [m |-> t,
                       cmd |-> Batch(<<ThemeSelectedCmd(selectedOption),
                                       SwitchScreenCmd(MenuScreen)>>),
                       saved |-> r.saved]
     ELSE stay(t)

backupItems == <<"JSON Format", "Markdown Format", "Back to Main Menu">>

NewBackupScreen == [index |-> 0, status |-> "", isError |-> FALSE]

\* performBackup: the format is bound when the command is made
performBackup(format) == [kind |-> "backup", format |-> format]

\* BackupScreen.Update: the screen and the command
BackupUpdate(s, msg) ==
  LET stay(n) == [m |-> n, cmd |-> NoCmd]
  IN IF msg.type = "KeyMsg" THEN
       IF msg.key \in {"up", "k"}
         THEN stay(IF s.index > 0 THEN [s EXCEPT !.index = s.index - 1] ELSE s)
       ELSE IF msg.key \in {"down", "j"}
         THEN stay(IF s.index < Len(backupItems) - 1
                     THEN [s EXCEPT !.index = s.index + 1] ELSE s)
       ELSE IF msg.key = "enter" THEN
         IF backupItems[s.index + 1] = "JSON Format"
           THEN [m |-> [s EXCEPT !.status = ""], cmd |-> performBackup("json")]
         ELSE IF backupItems[s.index + 1] = "Markdown Format"
           THEN [m |-> [s EXCEPT !.status = ""], cmd |-> performBackup("markdown")]
         ELSE [m |-> s, cmd |-> SwitchScreenCmd(MenuScreen)]
       ELSE IF msg.key \in {"q", "ctrl+c"} THEN [m |-> s, cmd |-> Quit]
       ELSE IF msg.key = "esc" THEN [m |-> s, cmd |-> SwitchScreenCmd(MenuScreen)]
       ELSE stay(s)
     ELSE IF msg.type = "BackupMsg"
       THEN stay(IF msg.err # NoErr
                   THEN [s EXCEPT !.status = "Backup failed", !.isError = TRUE]
                   ELSE [s EXCEPT !.status = "Backup completed successfully!",
                                  !.isError = FALSE])
     ELSE stay(s)

(***************************************************************************)
(* Model: the Screen Router.  Update hands the message to the model of the *)
(* current screen and follows the screen it returns.  What Update finds    *)
(* outside the program is given to it as io: whether the count query       *)
(* fails, the outcome of reading or writing the theme file, the home       *)
(* directory and the theme the file holds.                                 *)
(***************************************************************************)
NewModel(count, io) ==
  [currentScreen |-> MenuScreen,
   menu |-> NewMenuModel(count, io.countFails),
   addBook |-> NewAddBookModel,
   listBooks |-> NewListBooksModel,
   detail |-> NewDetailModel,
   edit |-> NewEditModel,
   utilities |-> NewUtilitiesModel,
   theme |-> NewThemeModel(io.saved, io.config),
   exportScreen |-> NewExportScreen(io.home),
   backup |-> NewBackupScreen]

\* a hard quit that the forms do not see either
QuitsAtOnceOffForms(m, msg) ==
  /\ msg.type = "KeyMsg"
  /\ msg.key \in {"ctrl+c", "q"}
  /\ m.currentScreen # AddBookScreen
  /\ m.currentScreen # EditBookScreen

\* the keys that quit before any screen sees them
QuitsAtOnce(m, msg) ==
  /\ msg.type = "KeyMsg"
  /\ \/ msg.key = "ctrl+c"
     \/ msg.key = "q" /\ m.currentScreen # AddBookScreen
                      /\ m.currentScreen # EditBookScreen

\* the switch on m.currentScreen: the model, the command and newScreen
Delegate(m, msg, count, io) ==
  IF m.currentScreen = MenuScreen THEN
    IF msg.type = "KeyMsg"
      THEN LET r == MenuUpdate(m.menu, msg)
           IN [m |-> [m EXCEPT !.menu = r.m], cmd |-> r.cmd, newScreen |-> r.screen]
      ELSE [m |-> m, cmd |-> NoCmd, newScreen |-> m.currentScreen]
  ELSE IF m.currentScreen = AddBookScreen THEN
    LET r == AddBookUpdate(m.addBook, msg)
    IN [m |-> IF r.screen = MenuScreen
                THEN [m EXCEPT !.addBook = Reset(r.m),
                               !.menu = updateMenuItems(m.menu, count, io.countFails)]
                ELSE [m EXCEPT !.addBook = r.m],
        cmd |-> r.cmd, newScreen |-> r.screen]
  ELSE IF m.currentScreen = ListBooksScreen THEN
    LET r == ListBooksUpdate(m.listBooks, msg)
        replaced == msg.type = "LoadBooksMsg" /\ msg.err = NoErr
        m1 == [m EXCEPT !.listBooks = r.m,
                        !.detail.SelectedBook = IF replaced THEN Outdated(@) ELSE @,
                        !.edit.SelectedBook = IF replaced THEN Outdated(@) ELSE @]
        m2 == IF r.selectedBook # NilBook
                THEN [m1 EXCEPT !.detail = DetailSetBook(m1.detail, r.selectedBook)]
                ELSE m1
        m3 == IF r.screen = MenuScreen
                THEN [m2 EXCEPT !.menu = updateMenuItems(m2.menu, count, io.countFails)]
                ELSE m2
    IN [m |-> m3, cmd |-> r.cmd, newScreen |-> r.screen]
  ELSE IF m.currentScreen = BookDetailScreen THEN
    LET r == DetailUpdate(m.detail, msg, m.listBooks.books)
        m1 == [m EXCEPT !.detail = r.m]
    IN [m |-> IF r.screen = EditBookScreen
                THEN [m1 EXCEPT !.edit =
                        EditSetBook(m1.edit, m1.detail.SelectedBook,
                                    m1.listBooks.books[m1.detail.SelectedBook.i])]
                ELSE m1,
        cmd |-> r.cmd, newScreen |-> r.screen]
  ELSE IF m.currentScreen = EditBookScreen THEN
    LET r == EditUpdate(m.edit, msg, m.listBooks.books)
        m1 == [m EXCEPT !.edit = r.m, !.listBooks.books = r.books]
    IN [m |-> IF r.screen = BookDetailScreen
                THEN [m1 EXCEPT !.detail = ClearUpdated(m1.detail)]
                ELSE m1,
        cmd |-> r.cmd, newScreen |-> r.screen]
  ELSE IF m.currentScreen = UtilitiesScreen THEN
    IF msg.type = "KeyMsg"
      THEN LET r == UtilitiesUpdate(m.utilities, msg)
           IN [m |-> [m EXCEPT !.utilities = r.m], cmd |-> r.cmd,
               newScreen |-> r.screen]
      ELSE [m |-> m, cmd |-> NoCmd, newScreen |-> m.currentScreen]
  ELSE IF m.currentScreen = ThemeScreen THEN
    LET r == ThemeUpdate(m.theme, msg, io.saved, io.config)
    IN [m |-> [m EXCEPT !.theme = r.m], cmd |-> r.cmd,
        newScreen |-> IF msg.type = "SwitchScreenMsg" THEN msg.screen
                      ELSE m.currentScreen]
  ELSE IF m.currentScreen = ExportScreen THEN
    LET r == ExportUpdate(m.exportScreen, msg, io.home)
    IN [m |-> [m EXCEPT !.exportScreen = r.m], cmd |-> r.cmd,
        newScreen |-> IF msg.type = "SwitchScreenMsg" THEN msg.screen
                      ELSE m.currentScreen]
  ELSE IF m.currentScreen = BackupScreen THEN
    LET r == BackupUpdate(m.backup, msg)
    IN [m |-> [m EXCEPT !.backup = r.m], cmd |-> r.cmd,
        newScreen |-> IF msg.type = "SwitchScreenMsg" THEN msg.screen
                      ELSE m.currentScreen]
  ELSE [m |-> m, cmd |-> NoCmd, newScreen |-> m.currentScreen]

\* the theme the file holds once Update has returned: ThemeModel.Update
\* writes it on Enter
SavedAfter(m, msg, io) ==
  IF m.currentScreen = ThemeScreen
    THEN ThemeUpdate(m.theme, msg, io.saved, io.config).saved
    ELSE io.saved

\* the screen transition that ends Update
Transition(m, newScreen, io) ==
  IF newScreen # m.currentScreen
    THEN [m EXCEPT !.currentScreen = newScreen,
                   !.listBooks = IF newScreen = ListBooksScreen
                                   THEN ClearDeleted(@) ELSE @,
                   !.exportScreen = IF newScreen = ExportScreen
                                      THEN ClearStatus(@) ELSE @,
                   !.theme = IF newScreen = ThemeScreen
                               THEN NewThemeModel(io.saved, io.config) ELSE @]
    ELSE m

\* Model.Update: the model and the command it returns, whether it has
\* closed the database, and the theme the file then holds
Update(m, msg, count, io) ==
  IF QuitsAtOnce(m, msg)
    THEN [m |-> m, cmd |-> Quit, closes |-> TRUE, saved |-> io.saved]
    ELSE LET r == Delegate(m, msg, count, io)
         IN [m |-> Transition(r.m, r.newScreen, io), cmd |-> r.cmd,
             closes |-> FALSE, saved |-> SavedAfter(m, msg, io)]

(***************************************************************************)
(* The single-file program of main.go: one model that holds every screen.  *)
(* The Add and the Edit form share the two inputs and have the title, the  *)
(* author and the save button as slots 0, 1 and 2.  A *book points into    *)
(* the array m.books was when the book was selected: gen numbers the       *)
(* arrays the list has had, i is the 1-based place in the array, and book  *)
(* is what the pointer now leads to.                                       *)
(***************************************************************************)
menuScreen == "menuScreen"
addBookScreen == "addBookScreen"
listBooksScreen == "listBooksScreen"
bookDetailScreen == "bookDetailScreen"
editBookScreen == "editBookScreen"

detailActions == <<"Edit Book", "Delete Book", "Back to List">>

\* the run-time panic of an index out of range or of a nil pointer
Panic == [kind |-> "panic"]

\* a nil *book
NoSelection == [gen |-> 0, i |-> 0, book |-> [id |-> 0, title |-> <<>>, author |-> <<>>]]

\* updateMenuItems of main.go: the items for the count the table reports
menuItemsFor(count) ==
  IF count > 0 THEN <<"Add Book", "View Books", "Quit">> ELSE <<"Add Book", "Quit">>

\* updateMenuItems of main.go: when the count query fails the short menu is
\* set and menuIndex is left as it is
legacyUpdateMenuItems(m, count, countFails) ==
  IF countFails THEN [m EXCEPT !.menuItems = <<"Add Book", "Quit">>]
  ELSE LET items == menuItemsFor(count)
       IN [m EXCEPT !.menuItems = items,
                    !.menuIndex = IF m.menuIndex >= Len(items) THEN Len(items) - 1
                                  ELSE m.menuIndex]

initialModel(count, countFails) ==
  legacyUpdateMenuItems(
    [inputs |-> <<Focus(NewInput), NewInput>>,
     focused |-> 0,
     err |-> NoErr,
     saved |-> FALSE,
     deleted |-> FALSE,
     updated |-> FALSE,
     currentScreen |-> menuScreen,
     menuItems |-> <<>>,
     menuIndex |-> 0,
     books |-> <<>>,
     gen |-> 0,
     selectedBook |-> NoSelection,
     bookListIndex |-> 0,
     detailIndex |-> 0], count, countFails)

\* the commands of main.go.  The closures of saveBook and updateBook share
\* the inputs with the model; read is what the closure has read so far: the
\* title, then the author.  The closures of updateBook and deleteBook hold
\* the pointer m.selectedBook was when they were made
saveBook == [kind |-> "save", read |-> <<>>]

updateBook(m) ==
  [kind |-> "update", id |-> m.selectedBook.book.id, gen |-> m.selectedBook.gen,
   i |-> m.selectedBook.i, read |-> <<>>]

deleteBook(m) == [kind |-> "delete", id |-> m.selectedBook.book.id]

loadBooks == [kind |-> "load"]

\* updateMenu: the model, the command and whether the database was closed
updateMenu(m, s) ==
  LET stay(n) == [m |-> n, cmd |-> NoCmd, closes |-> FALSE]
  IN IF s \in {"up", "k"}
       THEN stay(IF m.menuIndex > 0 THEN [m EXCEPT !.menuIndex = m.menuIndex - 1]
                 ELSE m)
     ELSE IF s \in {"down", "j"}
       THEN stay(IF m.menuIndex < Len(m.menuItems) - 1
                   THEN [m EXCEPT !.menuIndex = m.menuIndex + 1] ELSE m)
     ELSE IF s = "enter"
       THEN IF m.menuIndex >= Len(m.menuItems)
              THEN [m |-> m, cmd |-> Panic, closes |-> FALSE]
            ELSE LET selectedItem == m.menuItems[m.menuIndex + 1]
                 IN IF selectedItem = "Add Book"
                      THEN stay([m EXCEPT !.currentScreen = addBookScreen,
                                          !.focused = 0,
                                          !.err = NoErr,
                                          !.saved = FALSE,
                                          !.inputs = <<Focus(m.inputs[1]),
                                                       Blur(m.inputs[2])>>])
                    ELSE IF selectedItem = "View Books"
                      THEN [m |-> [m EXCEPT !.currentScreen = listBooksScreen],
                            cmd |-> loadBooks, closes |-> FALSE]
                    ELSE [m |-> m, cmd |-> Quit, closes |-> TRUE]
     ELSE stay(m)

\* the step the navigation keys make in updateAddBook and updateEditBook
legacyMove(focused, s) ==
  IF s = "up" \/ s = "shift+tab" THEN focused - 1 ELSE focused + 1

legacyWrap(focused) ==
  IF focused > NumInputs THEN 0
  ELSE IF focused < 0 THEN NumInputs
  ELSE focused

\* the slot on which updateAddBook and updateEditBook answer Enter with
\* their command
legacySubmitSlot == NumInputs - 1

\* updateInputs: every input is handed the key
updateInputs(m, s) ==
  [m EXCEPT !.inputs = [i \in 1..NumInputs |-> InputUpdate(m.inputs[i], s, CharLimit)]]

\* the navigation of both forms: the focus moves and wraps
legacyNavigate(m, s) ==
  LET focused == legacyWrap(legacyMove(m.focused, s))
  IN [m EXCEPT !.focused = focused,
               !.inputs = [i \in 1..NumInputs |->
                             IF i - 1 = focused THEN Focus(m.inputs[i])
                             ELSE Blur(m.inputs[i])]]

\* updateAddBook: the model and the command
updateAddBook(m, s) ==
  LET stay(n) == [m |-> n, cmd |-> NoCmd, closes |-> FALSE]
  IN IF s = "esc"
       THEN stay([m EXCEPT !.currentScreen = menuScreen, !.err = NoErr,
                           !.saved = FALSE])
     ELSE IF s \in {"tab", "shift+tab", "enter", "up", "down"}
       THEN IF s = "enter" /\ m.focused = legacySubmitSlot
              THEN [m |-> m, cmd |-> saveBook, closes |-> FALSE]
              ELSE stay(legacyNavigate(m, s))
     ELSE stay(updateInputs(m, s))

\* updateListBooks: Enter takes the address of m.books[m.bookListIndex]
updateListBooks(m, s) ==
  LET stay(n) == [m |-> n, cmd |-> NoCmd, closes |-> FALSE]
  IN IF s \in {"esc", "q"} THEN stay([m EXCEPT !.currentScreen = menuScreen])
     ELSE IF s \in {"up", "k"}
       THEN stay(IF m.bookListIndex > 0
                   THEN [m EXCEPT !.bookListIndex = m.bookListIndex - 1] ELSE m)
     ELSE IF s \in {"down", "j"}
       THEN stay(IF m.bookListIndex < Len(m.books) - 1
                   THEN [m EXCEPT !.bookListIndex = m.bookListIndex + 1] ELSE m)
     ELSE IF s = "enter" /\ Len(m.books) > 0
       THEN IF m.bookListIndex >= Len(m.books)
              THEN [m |-> m, cmd |-> Panic, closes |-> FALSE]
              ELSE stay([m EXCEPT
                           !.selectedBook = [gen |-> m.gen, i |-> m.bookListIndex + 1,
                                             book |-> m.books[m.bookListIndex + 1]],
                           !.currentScreen = bookDetailScreen,
                           !.detailIndex = 0,
                           !.err = NoErr,
                           !.deleted = FALSE,
                           !.updated = FALSE])
     ELSE stay(m)

\* updateBookDetail: the actions read the book through m.selectedBook
updateBookDetail(m, s) ==
  LET stay(n) == [m |-> n, cmd |-> NoCmd, closes |-> FALSE]
  IN IF s \in {"esc", "q"} THEN stay([m EXCEPT !.currentScreen = listBooksScreen])
     ELSE IF s \in {"up", "k"}
       THEN stay(IF m.detailIndex > 0
                   THEN [m EXCEPT !.detailIndex = m.detailIndex - 1] ELSE m)
     ELSE IF s \in {"down", "j"}
       THEN stay(IF m.detailIndex < Len(detailActions) - 1
                   THEN [m EXCEPT !.detailIndex = m.detailIndex + 1] ELSE m)
     ELSE IF s = "enter"
       THEN LET selectedAction == detailActions[m.detailIndex + 1]
            IN IF selectedAction = "Edit Book"
                 THEN IF m.selectedBook = NoSelection
                        THEN [m |-> m, cmd |-> Panic, closes |-> FALSE]
                        ELSE stay([m EXCEPT
                                     !.currentScreen = editBookScreen,
                                     !.focused = 0,
                                     !.err = NoErr,
                                     !.updated = FALSE,
                                     !.inputs =
                                        <<Focus(SetValue(m.inputs[1],
                                                         m.selectedBook.book.title)),
                                          Blur(SetValue(m.inputs[2],
                                                        m.selectedBook.book.author))>>])
               ELSE IF selectedAction = "Delete Book"
                 THEN [m |-> m, cmd |-> deleteBook(m), closes |-> FALSE]
               ELSE stay([m EXCEPT !.currentScreen = listBooksScreen])
     ELSE stay(m)

\* updateEditBook: the model and the command
updateEditBook(m, s) ==
  LET stay(n) == [m |-> n, cmd |-> NoCmd, closes |-> FALSE]
  IN IF s = "esc"
       THEN stay([m EXCEPT !.currentScreen = bookDetailScreen, !.err = NoErr,
                           !.updated = FALSE])
     ELSE IF s \in {"tab", "shift+tab", "enter", "up", "down"}
       THEN IF s = "enter" /\ m.focused = legacySubmitSlot
              THEN [m |-> m, cmd |-> updateBook(m), closes |-> FALSE]
              ELSE stay(legacyNavigate(m, s))
     ELSE stay(updateInputs(m, s))

\* Update of main.go: the model, the command and whether the database was
\* closed
legacyUpdate(m, msg, count, countFails) ==
  LET stay(n) == [m |-> n, cmd |-> NoCmd, closes |-> FALSE]
  IN IF msg.type = "KeyMsg" THEN
       IF msg.key = "ctrl+c" THEN [m |-> m, cmd |-> Quit, closes |-> TRUE]
       ELSE IF m.currentScreen = menuScreen THEN updateMenu(m, msg.key)
       ELSE IF m.currentScreen = addBookScreen THEN updateAddBook(m, msg.key)
       ELSE IF m.currentScreen = listBooksScreen THEN updateListBooks(m, msg.key)
       ELSE IF m.currentScreen = bookDetailScreen THEN updateBookDetail(m, msg.key)
       ELSE updateEditBook(m, msg.key)
     ELSE IF msg.type = "SaveMsg" THEN
       IF msg.err # NoErr THEN stay([m EXCEPT !.err = msg.err])
       ELSE stay(legacyUpdateMenuItems(
                   [m EXCEPT !.saved = TRUE,
                             !.inputs = <<Focus(SetValue(m.inputs[1], <<>>)),
                                          SetValue(m.inputs[2], <<>>)>>,
                             !.focused = 0], count, countFails))
     ELSE IF msg.type = "UpdateMsg" THEN
       IF msg.err # NoErr THEN stay([m EXCEPT !.err = msg.err])
       ELSE stay([m EXCEPT !.updated = TRUE, !.currentScreen = bookDetailScreen])
     ELSE IF msg.type = "DeleteMsg" THEN
       IF msg.err # NoErr THEN stay([m EXCEPT !.err = msg.err])
       ELSE [m |-> legacyUpdateMenuItems(
                     [m EXCEPT !.deleted = TRUE, !.currentScreen = listBooksScreen],
                     count, countFails),
             cmd |-> loadBooks, closes |-> FALSE]
     ELSE IF msg.type = "LoadBooksMsg" THEN
       IF msg.err # NoErr THEN stay([m EXCEPT !.err = msg.err])
       ELSE stay([m EXCEPT !.books = msg.books, !.gen = m.gen + 1])
     ELSE stay(m)

\* the program of main.go started on a table: m its model, table and seq its
\* table books, cmds the closures started and not yet run, msgs their
\* messages not yet handed to Update, closed whether db.Close has been
\* called; key and focused are the navigation key the last step handled on a
\* form and the slot it was pressed on, cmd the command Update returned in
\* that step
NewLegacy(table) ==
  [m |-> initialModel(Len(table), FALSE), table |-> table, seq |-> Len(table),
   cmds |-> <<>>, msgs |-> <<>>, phase |-> "running", closed |-> FALSE,
   key |-> "", focused |-> 0, cmd |-> "nil"]

(***************************************************************************)
(* The Bubble Tea program: the event loop hands key presses and the result *)
(* messages of finished commands to Update, one at a time; every command   *)
(* Update returns runs on a goroutine of its own.                          *)
(***************************************************************************)
VARIABLES
  model,    \* the Model the event loop holds
  cmds,     \* the commands that have been started and have not yet run
  msgs,     \* the result messages not yet handed to Update, next first
  phase,    \* "running", "quit" once the event loop has ended, then "exited"
  closes,   \* the calls of db.Close so far
  ev,       \* the navigation key Update handled last, and where the form stood
  pressed,  \* the keys pressed so far
  legacy,   \* the program of main.go: its model, its commands and messages
  session,  \* the form session under way: what stood when the form was entered
  config    \* the theme ~/.libros/theme.toml holds

programVars ==
  <<model, cmds, msgs, phase, closes, ev, pressed, legacy, session, config>>

vars ==
  <<rows, seq, clock, last, model, cmds, msgs, phase, closes, ev, pressed, legacy,
    session, config>>

\* the keys that move between the slots of a form
NavKeys == {"tab", "shift+tab", "enter", "up", "down"}

\* the keys pressed: all that a screen or a form tells apart, with "a" and " "
\* for the text that is typed
Keys ==
  NavKeys \union {"esc", "left", "right", "ctrl+a", "ctrl+e", "backspace",
                  "a", " ", "q", "ctrl+c"}

\* the outcomes of a call of the driver: it may fail, and does once the
\* database is closed
IoOutcomes == IF closes > 0 THEN {TRUE} ELSE BOOLEAN

\* what Update finds outside the program: main has found the home directory
\* before the program starts
IoOf(countFails, outcome) ==
  [countFails |-> countFails, config |-> outcome, home |-> HomeDir, saved |-> config]

\* every query answered and the theme file read and written
IoOk == IoOf(FALSE, "ok")

\* what Update may find: the count query of the menu fails as any call of the
\* driver may
Ios == {IoOf(countFails, outcome) : countFails \in IoOutcomes, outcome \in {"ok"}}

\* the screens a key leads to when the books are worked on; the Utilities
\* and Theme screens and what lies behind them are then not entered
Screens ==
  {MenuScreen, AddBookScreen, ListBooksScreen, BookDetailScreen, EditBookScreen}

NoEvent == [key |-> "", screen |-> MenuScreen, focused |-> 0, run |-> 0]

\* the characters a form holds
FormLength(f) ==
  Len(f.inputs[1].value) + Len(f.inputs[2].value) + Len(f.textarea.value)

\* the focused slot of the form on screen, 0 on the other screens
FocusedOf(m) ==
  IF m.currentScreen = AddBookScreen THEN m.addBook.focused
  ELSE IF m.currentScreen = EditBookScreen THEN m.edit.focused
  ELSE 0

\* the keys remembered: those that move between the slots, and those that turn
\* the selector
EventKeys == NavKeys \union {"left", "right"}

\* what is remembered of a message Update has handled: the navigation and
\* selector keys pressed on a form, with the slot that was focused and the
\* number of times in a row the key has now been pressed on this form (counted
\* up to the number of slots)
EventOf(m, msg, before) ==
  IF /\ msg.type = "KeyMsg"
     /\ msg.key \in EventKeys
     /\ m.currentScreen \in {AddBookScreen, EditBookScreen}
    THEN [key |-> msg.key, screen |-> m.currentScreen, focused |-> FocusedOf(m),
          run |-> IF before.key = msg.key /\ before.screen = m.currentScreen
                    THEN IF before.run < NumInputs + 3 THEN before.run + 1
                         ELSE before.run
                    ELSE 1]
    ELSE NoEvent

\* no form is shown
NoSession ==
  [screen |-> MenuScreen, rows |-> <<>>, books |-> <<>>, alone |-> FALSE,
   submitted |-> FALSE]

\* what is remembered of the form session under way once Update has returned
\* next: the rows of the table and the list's array as the form was entered,
\* whether no command or message was then outstanding, and whether the session
\* has dispatched a command
SessionOf(next, starts, queue) ==
  IF next.currentScreen \notin {AddBookScreen, EditBookScreen} THEN NoSession
  ELSE IF next.currentScreen # model.currentScreen
    THEN [screen |-> next.currentScreen, rows |-> rows,
          books |-> next.listBooks.books,
          alone |-> cmds = <<>> /\ queue = <<>> /\ ~starts,
          submitted |-> FALSE]
  ELSE [session EXCEPT !.submitted = @ \/ starts]

\* the program of main.go as it starts on an empty table
LegacyStart == NewLegacy(<<>>)

InitProgram ==
  /\ config = "Default"
  /\ model = NewModel(GetBookCount(rows), IoOk)
  /\ cmds = <<>>
  /\ msgs = <<>>
  /\ phase = "running"
  /\ closes = 0
  /\ ev = NoEvent
  /\ pressed = 0
  /\ legacy = LegacyStart
  /\ session = NoSession

\* tea.QuitMsg, which tea.Quit returns
QuitMsg == [type |-> "QuitMsg", err |-> NoErr]

\* the commands a returned tea.Cmd starts: none for nil, each command of a Batch
CommandsOf(cmd) ==
  IF cmd = NoCmd THEN <<>>
  ELSE IF cmd.kind = "batch" THEN cmd.cmds
  ELSE <<cmd>>

\* the commands and messages outstanding that are a tea.Quit or its QuitMsg
QuitsIn(cs, ms) ==
  Cardinality({i \in 1..Len(cs) : cs[i].kind = "quit"})
  + Cardinality({i \in 1..Len(ms) : ms[i].type = "QuitMsg"})

\* Update has given the textarea of the form a closure was made from a new
\* array: Reset on the way from the Add form to the menu, the SetValue("")
\* that answers a successful SaveMsg, SetBook on the way to the Edit form
NotesReplaced(kind, before, msg, after) ==
  IF kind = "save"
    THEN /\ before.currentScreen = AddBookScreen
         /\ \/ after.currentScreen = MenuScreen
            \/ msg.type = "SaveMsg" /\ msg.err = NoErr
    ELSE /\ before.currentScreen = BookDetailScreen
         /\ after.currentScreen = EditBookScreen

\* a started command once Update has run: the closure of a save or an update
\* sees what the form has written to the array its textarea shares with it
Tracked(c, before, msg, after) ==
  IF c.kind \notin {"save", "update"} \/ ~c.attached THEN c
  ELSE IF NotesReplaced(c.kind, before, msg, after) THEN [c EXCEPT !.attached = FALSE]
  ELSE [c EXCEPT !.shared = IF c.kind = "save" THEN after.addBook.textarea.value
                            ELSE after.edit.textarea.value]

\* one turn of the event loop: Update handles msg, the commands it returns
\* are started; queue is what remains to be delivered
Handle(msg, io, queue, screens) ==
  \E r \in {Update(model, msg, GetBookCount(rows), io)} :
  LET started == CommandsOf(r.cmd)
      starts == started # <<>> /\ r.cmd # Quit
  IN /\ r.m.currentScreen \in screens
     /\ FormLength(r.m.addBook) <= MaxTyped
     /\ FormLength(r.m.edit) <= MaxTyped
     /\ Len(r.m.exportScreen.pathInput.value) <= MaxTyped
     /\ starts => Len(cmds) + Len(queue) + Len(started)
                    <= MaxInFlight + QuitsIn(cmds, queue)
     /\ r.cmd = Quit => QuitsIn(cmds, queue) < MaxQuits
     /\ model' = r.m
     /\ cmds' = [i \in 1..Len(cmds) |-> Tracked(cmds[i], model, msg, r.m)] \o started
     /\ msgs' = queue
     /\ closes' = IF r.closes THEN closes + 1 ELSE closes
     /\ config' = r.saved
     /\ ev' = EventOf(model, msg, ev)
     /\ session' = SessionOf(r.m, starts, queue)
     /\ UNCHANGED <<rows, seq, clock, last, legacy, phase>>

\* a key press reaches Update
Key ==
  /\ phase = "running"
  /\ pressed < MaxKeys
  /\ pressed' = pressed + 1
  /\ \E key \in Keys, io \in Ios : Handle(KeyMsg(key), io, msgs, Screens)

\* the next result message reaches the event loop: a QuitMsg ends the loop,
\* any other message is handed to Update
Deliver ==
  /\ phase = "running"
  /\ msgs # <<>>
  /\ UNCHANGED pressed
  /\ IF Head(msgs) = QuitMsg
       THEN /\ phase' = "quit"
            /\ msgs' = Tail(msgs)
            /\ UNCHANGED <<rows, seq, clock, last, model, cmds, closes, ev, legacy,
                           session, config>>
       ELSE \E io \in Ios :
              Handle(Head(msgs), io, Tail(msgs),
                     Screens \union {UtilitiesScreen, ExportScreen, BackupScreen,
                                     ThemeScreen})

Without(q, i) == SubSeq(q, 1, i - 1) \o SubSeq(q, i + 1, Len(q))

\* the queue with msg put in after its first k messages
InsertAt(q, k, msg) == SubSeq(q, 1, k) \o <<msg>> \o SubSeq(q, k + 1, Len(q))

\* a started command has run and sends its message: the goroutines send
\* without order among them, so that the message may reach the event loop
\* before one whose command ran earlier
Finish(i, msg) ==
  /\ cmds' = Without(cmds, i)
  /\ \E k \in 0..Len(msgs) : msgs' = InsertAt(msgs, k, msg)
  /\ UNCHANGED <<clock, model, phase, closes, ev, pressed, legacy, session, config>>

\* the reads the closures of saveBookCmd and updateBookCmd make before their
\* call of the store
NumReads == NumInputs + 1

\* the closure of saveBookCmd or updateBookCmd makes its next read, while
\* Update goes on writing to the form: the title and the author are read from
\* the inputs as they are now, the notes from the closure's textarea, which
\* a write made since the closure was made may or may not have reached
ReadInput ==
  /\ phase # "exited"
  /\ \E i \in 1..Len(cmds) :
       /\ cmds[i].kind \in {"save", "update"}
       /\ Len(cmds[i].read) < NumReads
       /\ LET form == IF cmds[i].kind = "save" THEN model.addBook ELSE model.edit
              n == Len(cmds[i].read)
          IN \E v \in IF n < NumInputs THEN {form.inputs[n + 1].value}
                      ELSE {cmds[i].notes, cmds[i].shared} :
               cmds' = [cmds EXCEPT ![i].read = Append(@, v)]
  /\ UNCHANGED <<rows, seq, clock, last, model, msgs, phase, closes, ev, pressed,
                 legacy, session, config>>

\* the closure of saveBookCmd calls SaveBook with what it has read
ExecSave ==
  /\ phase # "exited"
  /\ \E i \in 1..Len(cmds), ioFails \in IoOutcomes :
       /\ cmds[i].kind = "save"
       /\ Len(cmds[i].read) = NumReads
       /\ LET r == SaveBook(rows, seq, clock,
                            cmds[i].read[1],
                            cmds[i].read[2],
                            bookTypes[cmds[i].selectedType + 1],
                            cmds[i].read[3],
                            ioFails)
          IN /\ Len(r.rows) <= MaxBooks
             /\ r.seq <= MaxId
             /\ rows' = r.rows
             /\ seq' = r.seq
             /\ UNCHANGED last
             /\ Finish(i, SaveMsg(r.err))

\* the closure of updateBookCmd calls UpdateBook with what it has read; last
\* keeps the call it makes, with the values it submits
ExecUpdate ==
  /\ phase # "exited"
  /\ \E i \in 1..Len(cmds), ioFails \in IoOutcomes :
       /\ cmds[i].kind = "update"
       /\ Len(cmds[i].read) = NumReads
       /\ LET title == cmds[i].read[1]
              author == cmds[i].read[2]
              bookType == bookTypes[cmds[i].selectedType + 1]
              notes == cmds[i].read[3]
          IN \E r \in {UpdateBook(rows, seq, clock, cmds[i].id, title, author,
                                  bookType, notes, ioFails)} :
               /\ rows' = r.rows
               /\ seq' = r.seq
               /\ last' = [op |-> "update", id |-> cmds[i].id, err |-> r.err,
                           exec |-> r.exec,
                           hit |-> IF r.err = NoErr THEN Hits(rows, cmds[i].id) ELSE 0,
                           before |-> StampOf(rows, cmds[i].id),
                           title |-> title, author |-> author, type |-> bookType,
                           notes |-> notes]
               /\ Finish(i, UpdateMsg(r.err))

\* the closure of deleteBookCmd runs; last keeps the call it makes
ExecDelete ==
  /\ phase # "exited"
  /\ \E i \in 1..Len(cmds), ioFails \in IoOutcomes :
       /\ cmds[i].kind = "delete"
       /\ \E r \in {DeleteBook(rows, seq, cmds[i].id, ioFails)} :
            /\ rows' = r.rows
            /\ seq' = r.seq
            /\ last' = [op |-> "delete", id |-> cmds[i].id, err |-> r.err,
                        exec |-> r.exec, hit |-> Len(rows) - Len(r.rows),
                        before |-> 0]
            /\ Finish(i, DeleteMsg(r.err))

\* the closure of LoadBooksCmd or loadBooksCmd runs
ExecLoad ==
  /\ phase # "exited"
  /\ \E i \in 1..Len(cmds), ioFails \in IoOutcomes :
       /\ cmds[i].kind = "load"
       /\ \E books \in IF ioFails THEN {<<>>} ELSE LoadBooks(rows) :
            Finish(i, LoadBooksMsg(books, IF ioFails THEN StorageErr ELSE NoErr))
       /\ UNCHANGED <<rows, seq, last>>

\* tea.Quit runs: its QuitMsg is sent
ExecQuit ==
  /\ phase # "exited"
  /\ \E i \in 1..Len(cmds) :
       /\ cmds[i].kind = "quit"
       /\ Finish(i, QuitMsg)
  /\ UNCHANGED <<rows, seq, last>>

\* a second passes
ClockTick ==
  /\ clock < MaxClock
  /\ clock' = clock + 1
  /\ UNCHANGED <<rows, seq, last, model, cmds, msgs, phase, closes, ev, pressed,
               legacy, session, config>>

\* main returns once the event loop has ended: its deferred db.Close runs
Exit ==
  /\ phase = "quit"
  /\ phase' = "exited"
  /\ closes' = closes + 1
  /\ UNCHANGED <<rows, seq, clock, last, model, cmds, msgs, ev, pressed, legacy,
                 session, config>>

\* the database file the program is started on: empty, or holding one book
SavedBefore ==
  <<[id |-> 1, title |-> <<"a">>, author |-> <<"a">>, type |-> Hardback,
     notes |-> <<>>, created_at |-> 0, updated_at |-> 0]>>

Init ==
  /\ rows \in {<<>>, SavedBefore}
  /\ seq = Len(rows)
  /\ clock = 0
  /\ last = [op |-> "open", id |-> 0, err |-> NoErr, exec |-> FALSE, hit |-> 0,
             before |-> 0]
  /\ InitProgram

Next ==
  \/ Key
  \/ Deliver
  \/ ReadInput
  \/ ExecSave
  \/ ExecUpdate
  \/ ExecDelete
  \/ ExecLoad
  \/ ExecQuit
  \/ ClockTick
  \/ Exit

Spec == Init /\ [][Next]_vars

(***************************************************************************)
(* The forms worked through: the program with the keys that lead through   *)
(* the screens and the slots of a form and that type and delete text.      *)
(***************************************************************************)
\* most keys pressed while the forms are worked through
MaxFormKeys == 8

FormKeys == {"up", "down", "enter", "backspace", "a"}

\* a key is pressed that leads on, types or deletes
FormKey ==
  /\ phase = "running"
  /\ pressed < MaxFormKeys
  /\ pressed' = pressed + 1
  /\ \E key \in FormKeys, io \in Ios : Handle(KeyMsg(key), io, msgs, Screens)

NextForms ==
  \/ FormKey
  \/ Deliver
  \/ ReadInput
  \/ ExecSave
  \/ ExecUpdate
  \/ ExecDelete
  \/ ExecLoad
  \/ ClockTick

SpecForms == Init /\ [][NextForms]_vars

(***************************************************************************)
(* Forms entered and left: the program with the keys that lead into a      *)
(* form, through its slots and out of it again, and that type.             *)
(***************************************************************************)
\* most keys pressed while forms are entered and left
MaxCancelKeys == 9

CancelKeys == {"enter", "up", "down", "esc", "a"}

\* a key is pressed that leads on or back, or types
CancelKey ==
  /\ phase = "running"
  /\ pressed < MaxCancelKeys
  /\ pressed' = pressed + 1
  /\ \E key \in CancelKeys, io \in Ios : Handle(KeyMsg(key), io, msgs, Screens)

NextCancel ==
  \/ CancelKey
  \/ Deliver
  \/ ReadInput
  \/ ExecSave
  \/ ExecUpdate
  \/ ExecDelete
  \/ ExecLoad

SpecCancel == Init /\ [][NextCancel]_vars

(***************************************************************************)
(* The store driven directly: any call, with any arguments, at any time.   *)
(***************************************************************************)
\* the arguments given to the store calls
TitleArgs == Strs(MaxLen)
AuthorArgs == Strs(MaxShort)
NotesArgs == Strs(MaxShort)
TypeArgs == {Paperback, Digital}

\* the zero value of models.BookType: what a caller that names no type passes
NoType == ""

\* the types given to SaveBook: a type, or none
SaveTypeArgs == TypeArgs \union {NoType}

\* the DEFAULT of the column type
DefaultType == Paperback

InitStore ==
  /\ rows = <<>>
  /\ seq = 0
  /\ clock = 0
  /\ last = NoCall
  /\ InitProgram

\* a second passes
StoreTick ==
  /\ clock < MaxClock
  /\ clock' = clock + 1
  /\ last' = [NoCall EXCEPT !.op = "tick"]
  /\ UNCHANGED <<rows, seq>>
  /\ UNCHANGED programVars

\* db.SaveBook(title, author, bookType, notes)
StoreSave ==
  \E title \in TitleArgs, author \in AuthorArgs, notes \in NotesArgs,
     bookType \in SaveTypeArgs, ioFails \in BOOLEAN :
    \E r \in {SaveBook(rows, seq, clock, title, author, bookType, notes, ioFails)} :
       /\ Len(r.rows) <= MaxBooks
       /\ r.seq <= MaxId
       /\ rows' = r.rows
       /\ seq' = r.seq
       /\ last' = [op |-> "save", id |-> r.seq, err |-> r.err, exec |-> r.exec,
                   hit |-> Len(r.rows) - Len(rows), before |-> 0]
       /\ UNCHANGED clock
       /\ UNCHANGED programVars

\* db.UpdateBook(id, title, author, bookType, notes)
StoreUpdate ==
  \E id \in 1..MaxId, title \in TitleArgs, author \in AuthorArgs,
     notes \in NotesArgs, bookType \in TypeArgs, ioFails \in BOOLEAN :
    \E r \in {UpdateBook(rows, seq, clock, id, title, author, bookType, notes, ioFails)} :
       /\ rows' = r.rows
       /\ seq' = r.seq
       /\ last' = [op |-> "update", id |-> id, err |-> r.err, exec |-> r.exec,
                   hit |-> IF r.err = NoErr THEN Hits(rows, id) ELSE 0,
                   before |-> StampOf(rows, id)]
       /\ UNCHANGED clock
       /\ UNCHANGED programVars

\* db.DeleteBook(id)
StoreDelete ==
  \E id \in 1..MaxId, ioFails \in BOOLEAN :
    \E r \in {DeleteBook(rows, seq, id, ioFails)} :
       /\ rows' = r.rows
       /\ seq' = r.seq
       /\ last' = [op |-> "delete", id |-> id, err |-> r.err, exec |-> r.exec,
                   hit |-> Len(rows) - Len(r.rows), before |-> 0]
       /\ UNCHANGED clock
       /\ UNCHANGED programVars

NextStore == StoreTick \/ StoreSave \/ StoreUpdate \/ StoreDelete

SpecStore == InitStore /\ [][NextStore]_vars

(***************************************************************************)
(* The program of main.go run on its own.  Its commands run as those of    *)
(* the Bubble Tea program do: each on a goroutine of its own, reading the  *)
(* inputs it shares with the model while Update goes on writing to them.   *)
(* A string is taken to be read and written in one piece.                  *)
(***************************************************************************)
\* most keys pressed in a run of the program of main.go
MaxLegacyKeys == 8

\* the keys pressed: "j" moves down the list and the actions of a book and is
\* text on a form
LegacyKeys == NavKeys \union {"esc", "backspace", "a", " ", "ctrl+c", "j"}

\* the key is a navigation key pressed on the Add or the Edit form
LegacyNav(key) ==
  key \in NavKeys /\ legacy.m.currentScreen \in {addBookScreen, editBookScreen}

\* the calls of the driver fail once the database is closed
LegacyIo == IF legacy.closed THEN {TRUE} ELSE BOOLEAN

\* the books of the table as main.go starts on it
LegacyShelf(n) ==
  [i \in 1..n |-> [id |-> i, title |-> <<"a">>, author |-> <<"a">>, created_at |-> 0]]

\* SELECT id, title, author: the columns loadBooks scans
Scanned(bs) ==
  [i \in 1..Len(bs) |-> [id |-> bs[i].id, title |-> bs[i].title,
                         author |-> bs[i].author]]

InitLegacy ==
  /\ rows = <<>>
  /\ seq = 0
  /\ clock = 0
  /\ last = NoCall
  /\ config = "Default"
  /\ model = NewModel(GetBookCount(rows), IoOk)
  /\ cmds = <<>>
  /\ msgs = <<>>
  /\ phase = "running"
  /\ closes = 0
  /\ ev = NoEvent
  /\ pressed = 0
  /\ session = NoSession
  /\ \E n \in 0..MaxBooks : legacy = NewLegacy(LegacyShelf(n))

\* one turn of the event loop of main.go: Update handles msg, the command it
\* returns is started; a panic ends the program
LegacyHandle(msg, key, queue) ==
  \E countFails \in LegacyIo :
    \E r \in {legacyUpdate(legacy.m, msg, Len(legacy.table), countFails)} :
      LET started == IF r.cmd = Panic THEN <<>> ELSE CommandsOf(r.cmd)
          starts == started # <<>> /\ r.cmd # Quit
      IN /\ Len(r.m.inputs[1].value) + Len(r.m.inputs[2].value) <= MaxTyped
         /\ starts => Len(legacy.cmds) + Len(queue) + Len(started)
                        <= MaxInFlight + QuitsIn(legacy.cmds, queue)
         /\ r.cmd = Quit => QuitsIn(legacy.cmds, queue) < MaxQuits
         /\ legacy' = [legacy EXCEPT
                         !.m = r.m,
                         !.cmds = @ \o started,
                         !.msgs = queue,
                         !.phase = IF r.cmd = Panic THEN "panic" ELSE @,
                         !.closed = @ \/ r.closes,
                         !.key = IF LegacyNav(key) THEN key ELSE "",
                         !.focused = IF LegacyNav(key) THEN legacy.m.focused ELSE 0,
                         !.cmd = r.cmd.kind]
         /\ UNCHANGED <<rows, seq, clock, last, model, cmds, msgs, phase, closes, ev,
                        session, config>>

\* a key press reaches Update of main.go
LegacyKey ==
  /\ legacy.phase = "running"
  /\ pressed < MaxLegacyKeys
  /\ pressed' = pressed + 1
  /\ \E key \in LegacyKeys : LegacyHandle(KeyMsg(key), key, legacy.msgs)

\* the next message reaches the event loop of main.go: a QuitMsg ends the
\* loop, any other message is handed to Update
LegacyDeliver ==
  /\ legacy.phase = "running"
  /\ legacy.msgs # <<>>
  /\ UNCHANGED pressed
  /\ IF Head(legacy.msgs) = QuitMsg
       THEN /\ legacy' = [legacy EXCEPT !.phase = "quit", !.msgs = Tail(@),
                                        !.key = "", !.focused = 0, !.cmd = "nil"]
            /\ UNCHANGED <<rows, seq, clock, last, model, cmds, msgs, phase, closes,
                           ev, session, config>>
       ELSE LegacyHandle(Head(legacy.msgs), "", Tail(legacy.msgs))

\* the program of main.go once its command i has run and sent msg, which may
\* reach the event loop before a message sent earlier
LegacyFinish(from, i, msg) ==
  /\ \E k \in 0..Len(from.msgs) :
       legacy' = [from EXCEPT !.cmds = Without(@, i),
                              !.msgs = InsertAt(@, k, msg),
                              !.key = "", !.focused = 0, !.cmd = "nil"]
  /\ UNCHANGED <<rows, seq, clock, last, model, cmds, msgs, phase, closes, ev,
                 pressed, session, config>>

\* the goroutines run until the process ends
LegacyRuns == legacy.phase \in {"running", "quit"}

\* the closure of saveBook or updateBook reads its next input, as it is now
LegacyRead ==
  /\ LegacyRuns
  /\ \E i \in 1..Len(legacy.cmds) :
       /\ legacy.cmds[i].kind \in {"save", "update"}
       /\ Len(legacy.cmds[i].read) < NumInputs
       /\ legacy' = [legacy EXCEPT
                       !.cmds[i].read =
                          Append(@, legacy.m.inputs[Len(@) + 1].value),
                       !.key = "", !.focused = 0, !.cmd = "nil"]
  /\ UNCHANGED <<rows, seq, clock, last, model, cmds, msgs, phase, closes, ev,
                 pressed, session, config>>

\* the closure of saveBook validates what it has read and inserts
LegacyExecSave ==
  /\ LegacyRuns
  /\ \E i \in 1..Len(legacy.cmds), ioFails \in LegacyIo :
       /\ legacy.cmds[i].kind = "save"
       /\ Len(legacy.cmds[i].read) = NumInputs
       /\ LET title == TrimSpace(legacy.cmds[i].read[1])
              author == TrimSpace(legacy.cmds[i].read[2])
              err == IF title = <<>> \/ author = <<>>
                       THEN "both title and author are required"
                     ELSE IF ioFails THEN StorageErr
                     ELSE NoErr
          IN /\ err = NoErr => Len(legacy.table) < MaxBooks /\ legacy.seq < MaxId
             /\ LegacyFinish(
                  IF err # NoErr THEN legacy
                  ELSE [legacy EXCEPT
                          !.table = Append(@, [id |-> legacy.seq + 1, title |-> title,
                                               author |-> author,
                                               created_at |-> clock]),
                          !.seq = @ + 1],
                  i, SaveMsg(err))

\* the book a *book leads to is given a title and an author: the element of
\* the array the list still has, and what m.selectedBook shows of it
Pointee(m, gen, i, title, author) ==
  [m EXCEPT
     !.books = IF m.gen = gen
                 THEN [@ EXCEPT ![i].title = title, ![i].author = author]
                 ELSE @,
     !.selectedBook = IF @.gen = gen /\ @.i = i
                        THEN [@ EXCEPT !.book.title = title, !.book.author = author]
                        ELSE @]

\* what the *book of closure c leads to
PointeeOf(m, c) ==
  IF m.gen = c.gen THEN m.books[c.i]
  ELSE IF m.selectedBook.gen = c.gen /\ m.selectedBook.i = c.i THEN m.selectedBook.book
  ELSE [id |-> c.id, title |-> <<>>, author |-> <<>>]

\* the closure of updateBook validates what it has read and updates the row
LegacyExecUpdate ==
  /\ LegacyRuns
  /\ \E i \in 1..Len(legacy.cmds), ioFails \in LegacyIo :
       LET c == legacy.cmds[i]
       IN /\ c.kind = "update"
          /\ Len(c.read) = NumInputs
          /\ LET title == TrimSpace(c.read[1])
                 author == TrimSpace(c.read[2])
                 err == IF title = <<>> \/ author = <<>>
                          THEN "both title and author are required"
                        ELSE IF ioFails THEN StorageErr
                        ELSE NoErr
             IN IF err # NoErr THEN LegacyFinish(legacy, i, UpdateMsg(err))
                ELSE /\ legacy' =
                          [legacy EXCEPT
                             !.table = [n \in 1..Len(@) |->
                                          IF @[n].id = c.id
                                            THEN [@[n] EXCEPT !.title = title,
                                                              !.author = author]
                                            ELSE @[n]],
                             !.cmds[i].kind = "updated",
                             !.key = "", !.focused = 0, !.cmd = "nil"]
                     /\ UNCHANGED <<rows, seq, clock, last, model, cmds, msgs, phase,
                                    closes, ev, pressed, session, config>>

\* the closure of updateBook, back from db.Exec, writes the title through its
\* *book
LegacyWriteTitle ==
  /\ LegacyRuns
  /\ \E i \in 1..Len(legacy.cmds) :
       LET c == legacy.cmds[i]
       IN /\ c.kind = "updated"
          /\ legacy' =
               [legacy EXCEPT
                  !.m = Pointee(@, c.gen, c.i, TrimSpace(c.read[1]),
                                PointeeOf(@, c).author),
                  !.cmds[i].kind = "titled",
                  !.key = "", !.focused = 0, !.cmd = "nil"]
          /\ UNCHANGED <<rows, seq, clock, last, model, cmds, msgs, phase,
                         closes, ev, pressed, session, config>>

\* the closure of updateBook writes the author through its *book and sends
\* its updateMsg
LegacyWriteAuthor ==
  /\ LegacyRuns
  /\ \E i \in 1..Len(legacy.cmds) :
       LET c == legacy.cmds[i]
       IN /\ c.kind = "titled"
          /\ LegacyFinish(
               [legacy EXCEPT !.m = Pointee(@, c.gen, c.i, PointeeOf(@, c).title,
                                            TrimSpace(c.read[2]))],
               i, UpdateMsg(NoErr))

\* the closure of deleteBook deletes the row of the book its *book leads to
LegacyExecDelete ==
  /\ LegacyRuns
  /\ \E i \in 1..Len(legacy.cmds), ioFails \in LegacyIo :
       /\ legacy.cmds[i].kind = "delete"
       /\ LegacyFinish(
            IF ioFails THEN legacy
            ELSE [legacy EXCEPT
                    !.table = SelectSeq(@, LAMBDA b : b.id # legacy.cmds[i].id)],
            i, DeleteMsg(IF ioFails THEN StorageErr ELSE NoErr))

\* the closure of loadBooks queries the table
LegacyExecLoad ==
  /\ LegacyRuns
  /\ \E i \in 1..Len(legacy.cmds), ioFails \in LegacyIo :
       /\ legacy.cmds[i].kind = "load"
       /\ \E books \in IF ioFails THEN {<<>>} ELSE LoadBooks(legacy.table) :
            LegacyFinish(legacy, i,
                         LoadBooksMsg(Scanned(books),
                                      IF ioFails THEN StorageErr ELSE NoErr))

\* tea.Quit runs: its QuitMsg is sent
LegacyExecQuit ==
  /\ LegacyRuns
  /\ \E i \in 1..Len(legacy.cmds) :
       /\ legacy.cmds[i].kind = "quit"
       /\ LegacyFinish(legacy, i, QuitMsg)

\* main of main.go returns once the event loop has ended; it has no deferred
\* close
LegacyExit ==
  /\ legacy.phase = "quit"
  /\ legacy' = [legacy EXCEPT !.phase = "exited", !.key = "", !.focused = 0,
                              !.cmd = "nil"]
  /\ UNCHANGED <<rows, seq, clock, last, model, cmds, msgs, phase, closes, ev,
                 pressed, session, config>>

NextLegacy ==
  \/ LegacyKey
  \/ LegacyDeliver
  \/ LegacyRead
  \/ LegacyExecSave
  \/ LegacyExecUpdate
  \/ LegacyWriteTitle
  \/ LegacyWriteAuthor
  \/ LegacyExecDelete
  \/ LegacyExecLoad
  \/ LegacyExecQuit
  \/ LegacyExit

SpecLegacy == InitLegacy /\ [][NextLegacy]_vars

(***************************************************************************)
(* The export flow: the program with the keys of the menu, the utilities   *)
(* menu and the export screen.                                             *)
(***************************************************************************)
\* most keys pressed in a run of the export flow
MaxExportKeys == 12

ExportKeys == {"up", "down", "enter", "esc", "q", "a", "/", "~", "backspace"}

\* a key is pressed on the menu, the utilities menu or the export screen
ExportKey ==
  /\ phase = "running"
  /\ pressed < MaxExportKeys
  /\ pressed' = pressed + 1
  /\ \E key \in ExportKeys :
       Handle(KeyMsg(key), IoOk, msgs, {MenuScreen, UtilitiesScreen, ExportScreen})

\* the closure of SwitchScreenCmd runs
ExecSwitch ==
  /\ phase # "exited"
  /\ \E i \in 1..Len(cmds) :
       /\ cmds[i].kind = "switch"
       /\ Finish(i, SwitchScreenMsg(cmds[i].screen))
  /\ UNCHANGED <<rows, seq, last>>

\* the closure of performExport runs as far as db.LoadBooks: making the
\* directory or loading the books may fail, which ends the export; last keeps
\* the format of the export that ended and whether it is the only one that has
ExecExport ==
  /\ phase # "exited"
  /\ \E i \in 1..Len(cmds), mkdirFails \in BOOLEAN, ioFails \in IoOutcomes :
       /\ cmds[i].kind = "export"
       /\ IF mkdirFails \/ ioFails
            THEN /\ last' = [op |-> "export", format |-> cmds[i].format,
                             only |-> last.op # "export"]
                 /\ Finish(i, BackupMsg(StorageErr))
            ELSE /\ cmds' = [cmds EXCEPT ![i].kind = "exporting"]
                 /\ UNCHANGED <<last, clock, model, msgs, phase, closes, ev, pressed,
                                legacy, session, config>>
  /\ UNCHANGED <<rows, seq>>

\* the closure of performExport writes the file it has loaded the books for,
\* which needs no database and may fail
WriteExport ==
  /\ phase # "exited"
  /\ \E i \in 1..Len(cmds), err \in {NoErr, StorageErr} :
       /\ cmds[i].kind = "exporting"
       /\ last' = [op |-> "export", format |-> cmds[i].format,
                   only |-> last.op # "export"]
       /\ Finish(i, BackupMsg(err))
  /\ UNCHANGED <<rows, seq>>

NextExport ==
  \/ ExportKey
  \/ Deliver
  \/ ExecSwitch
  \/ ExecExport
  \/ WriteExport
  \/ ExecQuit
  \/ Exit

SpecExport == Init /\ [][NextExport]_vars

(***************************************************************************)
(* The list browsed: the program started on a table of more books than a   *)
(* page shows, with the keys of the menu, the list and the detail screen.  *)
(***************************************************************************)
\* most books of the table the list is browsed on
MaxListed == 4

\* a table of n books saved one after the other
Shelf(n) ==
  [i \in 1..n |-> [id |-> i, title |-> <<"a">>, author |-> <<"a">>,
                   type |-> Paperback, notes |-> <<>>,
                   created_at |-> i, updated_at |-> i]]

InitList ==
  /\ rows = Shelf(MaxListed)
  /\ seq = MaxListed
  /\ clock = 0
  /\ last = NoCall
  /\ InitProgram

\* most keys pressed while the list is browsed
MaxListKeys == 14

ListKeys == {"up", "down", "k", "j", "enter", "esc"}

\* a key is pressed on the menu, the list or the detail screen; the forms are
\* not entered
ListKey ==
  /\ phase = "running"
  /\ pressed < MaxListKeys
  /\ pressed' = pressed + 1
  /\ \E key \in ListKeys :
       Handle(KeyMsg(key), IoOk, msgs,
              {MenuScreen, ListBooksScreen, BookDetailScreen})

NextList == ListKey \/ Deliver \/ ExecLoad \/ ExecDelete

SpecList == InitList /\ [][NextList]_vars

(***************************************************************************)
(* The exports of the BackupService, given any list of books.  A JSON      *)
(* string is the sequence of what encoding/json writes for each character; *)
(* a Markdown document is the sequence of its lines.                       *)
(***************************************************************************)
\* most books given to an export
MaxExported == 2

\* a byte that is not valid UTF-8, and U+FFFD, which encoding/json puts in its place
InvalidByte == "xff"
ReplacementChar == "U+FFFD"

\* the characters of the exported texts: "<" is one encoding/json escapes
ExportChars == {"a", "<", InvalidByte}

ExportStrs(n) == UNION {[1..k -> ExportChars] : k \in 0..n}

\* json.Marshal of a string: HTML characters escaped, invalid UTF-8 coerced
JSONString(s) ==
  [i \in 1..Len(s) |->
     IF s[i] = InvalidByte THEN "\\ufffd"
     ELSE IF s[i] = "<" THEN "\\u003c"
     ELSE s[i]]

\* json.Unmarshal of a string
JSONUnquote(e) ==
  [i \in 1..Len(e) |->
     IF e[i] = "\\ufffd" THEN ReplacementChar
     ELSE IF e[i] = "\\u003c" THEN "<"
     ELSE e[i]]

\* the value an interface{} holds: a models.BookType, a string given by its
\* characters, or a value of another type
OfBookType(t) == [dyn |-> "BookType", v |-> t]
OfString(cs) == [dyn |-> "string", v |-> cs]
OfType(dyn, x) == [dyn |-> dyn, v |-> x]

LowerCase == <<"a", "b", "c", "d", "e", "f", "g", "h", "i", "j", "k", "l", "m",
               "n", "o", "p", "q", "r", "s", "t", "u", "v", "w", "x", "y", "z">>
UpperCase == <<"A", "B", "C", "D", "E", "F", "G", "H", "I", "J", "K", "L", "M",
               "N", "O", "P", "Q", "R", "S", "T", "U", "V", "W", "X", "Y", "Z">>

\* strings.ToLower and strings.ToUpper
ToLower(cs) ==
  [i \in 1..Len(cs) |->
     IF \E n \in 1..Len(UpperCase) : UpperCase[n] = cs[i]
       THEN LowerCase[CHOOSE n \in 1..Len(UpperCase) : UpperCase[n] = cs[i]]
       ELSE cs[i]]
ToUpper(cs) ==
  [i \in 1..Len(cs) |->
     IF \E n \in 1..Len(LowerCase) : LowerCase[n] = cs[i]
       THEN UpperCase[CHOOSE n \in 1..Len(LowerCase) : LowerCase[n] = cs[i]]
       ELSE cs[i]]

\* the words of a []string as %v shows them, a space between them
RECURSIVE Words(_)
Words(ws) ==
  IF ws = <<>> THEN ""
  ELSE IF Len(ws) = 1 THEN ws[1]
  ELSE ws[1] \o " " \o Words(Tail(ws))

\* fmt.Sprintf("%v", x) of a value that is neither a BookType nor a string
Sprintv(x) ==
  IF x.dyn = "nil" THEN "<nil>"
  ELSE IF x.dyn = "bool" THEN IF x.v THEN "true" ELSE "false"
  ELSE IF x.dyn = "[]string" THEN "[" \o Words(x.v) \o "]"
  ELSE ToString(x.v)

\* utils.FormatBookType: the display name of a models.BookType; of a string
\* compared without regard to case, a string that names no type being given
\* back with its first letter in upper case and the rest in lower case; a value
\* of another type as %v shows it
FormatBookType(bookType) ==
  IF bookType.dyn = "BookType" THEN
    IF bookType.v = Paperback THEN "Paperback"
    ELSE IF bookType.v = Hardback THEN "Hardback"
    ELSE IF bookType.v = Audio THEN "Audio"
    ELSE IF bookType.v = Digital THEN "Digital"
    ELSE bookType.v
  ELSE IF bookType.dyn = "string" THEN
    LET v == bookType.v
        lower == ToLower(v)
    IN IF lower = <<"p", "a", "p", "e", "r", "b", "a", "c", "k">> THEN "Paperback"
       ELSE IF lower = <<"h", "a", "r", "d", "b", "a", "c", "k">> THEN "Hardback"
       ELSE IF lower = <<"a", "u", "d", "i", "o">> THEN "Audio"
       ELSE IF lower = <<"d", "i", "g", "i", "t", "a", "l">> THEN "Digital"
       ELSE IF Len(v) = 0 THEN v
       ELSE ToUpper(<<Head(v)>>) \o ToLower(Tail(v))
  ELSE Sprintv(bookType)

\* formatBookType of the database package: the display name of a type
formatBookType(bookType) ==
  IF bookType = Paperback THEN "Paperback"
  ELSE IF bookType = Hardback THEN "Hardback"
  ELSE IF bookType = Audio THEN "Audio"
  ELSE IF bookType = Digital THEN "Digital"
  ELSE bookType

\* utils.FormatDate: the day of the time, without the time of day
FormatDate(t) == t \div 86400

\* ExportToJSON: BackupData{ExportDate, TotalBooks, Books} marshalled
ExportToJSON(books, now) ==
  [export_date |-> now,
   total_books |-> Len(books),
   books |-> [i \in 1..Len(books) |->
                [ID |-> books[i].id,
                 Title |-> JSONString(books[i].title),
                 Author |-> JSONString(books[i].author),
                 Type |-> books[i].type,
                 Notes |-> JSONString(books[i].notes),
                 CreatedAt |-> books[i].created_at,
                 UpdatedAt |-> books[i].updated_at]]]

\* the books of a JSON document read back with json.Unmarshal
JSONBooks(doc) ==
  [i \in 1..Len(doc.books) |->
     [id |-> doc.books[i].ID,
      title |-> JSONUnquote(doc.books[i].Title),
      author |-> JSONUnquote(doc.books[i].Author),
      type |-> doc.books[i].Type,
      notes |-> JSONUnquote(doc.books[i].Notes),
      created_at |-> doc.books[i].CreatedAt,
      updated_at |-> doc.books[i].UpdatedAt]]

MarkdownLine(kind, n, text) == [kind |-> kind, n |-> n, text |-> text]

\* the lines ExportToMarkdown writes for the i-th book
MarkdownSection(i, book) ==
  <<MarkdownLine("heading", i, book.title),
    MarkdownLine("author", 0, book.author),
    MarkdownLine("type", 0, FormatBookType(OfBookType(book.type))),
    MarkdownLine("created", FormatDate(book.created_at), <<>>),
    MarkdownLine("updated", FormatDate(book.updated_at), <<>>)>>
  \o (IF book.notes # <<>> THEN <<MarkdownLine("notes", 0, book.notes)>> ELSE <<>>)
  \o <<MarkdownLine("rule", 0, <<>>)>>

RECURSIVE MarkdownSections(_, _)
MarkdownSections(books, i) ==
  IF i > Len(books) THEN <<>>
  ELSE MarkdownSection(i, books[i]) \o MarkdownSections(books, i + 1)

\* a document that leaves out the books without notes
ExportToMarkdownNoted(books, now) ==
  <<MarkdownLine("title", 0, <<>>),
    MarkdownLine("date", FormatDate(now), <<>>),
    MarkdownLine("total", Len(books), <<>>)>>
  \o MarkdownSections(SelectSeq(books, LAMBDA b : b.notes # <<>>), 1)

\* ExportToMarkdown: the header, then a section for each book
ExportToMarkdown(books, now) ==
  <<MarkdownLine("title", 0, <<>>),
    MarkdownLine("date", FormatDate(now), <<>>),
    MarkdownLine("total", Len(books), <<>>)>>
  \o MarkdownSections(books, 1)

\* the lists of books given to the exports
ExportedFields ==
  [title : ExportStrs(MaxShort), author : ExportStrs(MaxShort) \ {<<>>},
   type : TypeArgs, notes : ExportStrs(MaxShort)]

ExportedBooks ==
  UNION {{[i \in 1..n |-> [id |-> i, title |-> f[i].title, author |-> f[i].author,
                           type |-> f[i].type, notes |-> f[i].notes,
                           created_at |-> 0, updated_at |-> 0]] :
            f \in [1..n -> ExportedFields]} : n \in 0..MaxExported}

\* no export made yet
NoExport == [op |-> "open", err |-> NoErr, file |-> <<>>]

InitBackup ==
  /\ rows \in ExportedBooks
  /\ seq = Len(rows)
  /\ clock = 0
  /\ last = NoExport
  /\ InitProgram

\* backupService.ExportToJSON(books, path); ioFails is MkdirAll or WriteFile failing
BackupJSON ==
  /\ \E ioFails \in BOOLEAN :
       last' = IF ioFails THEN [op |-> "json", err |-> StorageErr, file |-> <<>>]
               ELSE [op |-> "json", err |-> NoErr, file |-> ExportToJSON(rows, clock)]
  /\ UNCHANGED <<rows, seq, clock>>
  /\ UNCHANGED programVars

\* backupService.ExportToMarkdown(books, path)
BackupMarkdown ==
  /\ \E ioFails \in BOOLEAN :
       last' = IF ioFails THEN [op |-> "markdown", err |-> StorageErr, file |-> <<>>]
               ELSE [op |-> "markdown", err |-> NoErr,
                     file |-> ExportToMarkdown(rows, clock)]
  /\ UNCHANGED <<rows, seq, clock>>
  /\ UNCHANGED programVars

NextBackup == BackupJSON \/ BackupMarkdown

SpecBackup == InitBackup /\ [][NextBackup]_vars

(***************************************************************************)
(* The settings: the program with the keys of the menu, the utilities      *)
(* menu, the theme screen and the backup screen.                           *)
(***************************************************************************)
\* most keys pressed while the settings are shown
MaxSettingsKeys == 10

SettingsKeys == {"up", "down", "k", "j", "enter", "esc", "q"}

SettingsScreens == {MenuScreen, UtilitiesScreen, ThemeScreen, BackupScreen}

\* what Update may find: the count query and the theme file may fail
SettingsIos ==
  {IoOf(countFails, outcome) : countFails \in IoOutcomes, outcome \in ConfigOutcomes}

\* db.BackupToJSON: the books loaded, marshalled as BackupData
BackupToJSON(books, now) == ExportToJSON(books, now)

\* the lines db.BackupToMarkdown writes for a book: the Updated line only
\* when the book has been updated since it was added
BackupSection(book) ==
  <<MarkdownLine("heading", 0, book.title),
    MarkdownLine("author", 0, book.author),
    MarkdownLine("type", 0, formatBookType(book.type)),
    MarkdownLine("created", FormatDate(book.created_at), <<>>)>>
  \o (IF book.updated_at # book.created_at
        THEN <<MarkdownLine("updated", FormatDate(book.updated_at), <<>>)>> ELSE <<>>)
  \o (IF book.notes # <<>> THEN <<MarkdownLine("notes", 0, book.notes)>> ELSE <<>>)

\* the sections of the books in their order; the loop leaves their positions
\* out
RECURSIVE BackupSections(_)
BackupSections(books) ==
  IF books = <<>> THEN <<>>
  ELSE BackupSection(Head(books)) \o BackupSections(Tail(books))

\* db.BackupToMarkdown: the title, then a section for each book
BackupToMarkdown(books) ==
  <<MarkdownLine("title", 0, <<>>)>> \o BackupSections(books)

\* a key is pressed on the menu, the utilities menu, the theme screen or the
\* backup screen
SettingsKey ==
  /\ phase = "running"
  /\ pressed < MaxSettingsKeys
  /\ pressed' = pressed + 1
  /\ \E key \in SettingsKeys, io \in SettingsIos :
       Handle(KeyMsg(key), io, msgs, SettingsScreens)

\* the next message reaches the event loop while the settings are shown
SettingsDeliver ==
  /\ phase = "running"
  /\ msgs # <<>>
  /\ UNCHANGED pressed
  /\ IF Head(msgs) = QuitMsg
       THEN /\ phase' = "quit"
            /\ msgs' = Tail(msgs)
            /\ UNCHANGED <<rows, seq, clock, last, model, cmds, closes, ev, legacy,
                           session, config>>
       ELSE \E io \in SettingsIos : Handle(Head(msgs), io, Tail(msgs), SettingsScreens)

\* the closure of ThemeSelectedCmd runs
ExecSelected ==
  /\ phase # "exited"
  /\ \E i \in 1..Len(cmds) :
       /\ cmds[i].kind = "selected"
       /\ Finish(i, ThemeSelectedMsg(cmds[i].theme))
  /\ UNCHANGED <<rows, seq, last>>

\* the closure of performBackup runs as far as db.LoadBooks: a load that
\* fails ends the backup, the books of one that succeeds are kept with the
\* time read after it
ExecBackup ==
  /\ phase # "exited"
  /\ \E i \in 1..Len(cmds), ioFails \in IoOutcomes :
       /\ cmds[i].kind = "backup"
       /\ IF ioFails
            THEN /\ last' = [op |-> "backup", format |-> cmds[i].format,
                             err |-> StorageErr, file |-> <<>>]
                 /\ Finish(i, BackupMsg(StorageErr))
            ELSE /\ \E books \in LoadBooks(rows) :
                      cmds' = [cmds EXCEPT ![i] = [kind |-> "loaded",
                                                   format |-> @.format,
                                                   books |-> books,
                                                   now |-> clock]]
                 /\ UNCHANGED <<last, clock, model, msgs, phase, closes, ev, pressed,
                                legacy, session, config>>
  /\ UNCHANGED <<rows, seq>>

\* the closure of performBackup writes books.json or books.md to ~/.libros
\* with os.WriteFile, which needs no database; last keeps the file written
WriteBackup ==
  /\ phase # "exited"
  /\ \E i \in 1..Len(cmds), writeFails \in BOOLEAN :
       /\ cmds[i].kind = "loaded"
       /\ last' = [op |-> "backup", format |-> cmds[i].format,
                   err |-> IF writeFails THEN StorageErr ELSE NoErr,
                   file |-> IF writeFails THEN <<>>
                            ELSE IF cmds[i].format = "json"
                              THEN BackupToJSON(cmds[i].books, cmds[i].now)
                            ELSE BackupToMarkdown(cmds[i].books)]
       /\ Finish(i, BackupMsg(IF writeFails THEN StorageErr ELSE NoErr))
  /\ UNCHANGED <<rows, seq>>

NextSettings ==
  \/ SettingsKey
  \/ SettingsDeliver
  \/ ExecSwitch
  \/ ExecSelected
  \/ ExecBackup
  \/ WriteBackup
  \/ ExecQuit
  \/ Exit

SpecSettings == Init /\ [][NextSettings]_vars

(***************************************************************************)
(* The program left: every screen of the program, with the keys that lead  *)
(* to it and into its forms, and Ctrl+C.                                   *)
(***************************************************************************)
\* most keys pressed before the program is left
MaxLiveKeys == 8

LiveKeys == {"up", "down", "enter", "esc", "a", "ctrl+c"}

\* every screen Model.Update dispatches on
AllScreens ==
  Screens \union {UtilitiesScreen, ExportScreen, BackupScreen, ThemeScreen}

\* a key is pressed on whatever screen is shown
LiveKey ==
  /\ phase = "running"
  /\ pressed < MaxLiveKeys
  /\ pressed' = pressed + 1
  /\ \E key \in LiveKeys, io \in Ios : Handle(KeyMsg(key), io, msgs, AllScreens)

NextLive ==
  \/ LiveKey
  \/ Deliver
  \/ ReadInput
  \/ ExecSave
  \/ ExecUpdate
  \/ ExecDelete
  \/ ExecLoad
  \/ ExecSwitch
  \/ ExecSelected
  \/ ExecBackup
  \/ WriteBackup
  \/ ExecExport
  \/ WriteExport
  \/ ExecQuit
  \/ Exit

\* a started tea.Quit runs, its QuitMsg reaches the event loop, and main goes
\* on once Run has returned: the event loop having ended, the process exits
SpecLive ==
  /\ Init /\ [][NextLive]_vars
  /\ WF_vars(ExecQuit) /\ WF_vars(Deliver) /\ WF_vars(Exit)

(***************************************************************************)
(* Claims about the Record Store, checked under SpecStore.                 *)
(***************************************************************************)
\* s is empty or whitespace only
Blank(s) == \A k \in 1..Len(s) : s[k] = " "

\* t is s without its leading and trailing whitespace
IsTrimOf(t, s) ==
  \E i \in 1..Len(s) + 1, j \in 0..Len(s) :
    /\ t = SubSeq(s, i, j)
    /\ \A k \in 1..Len(s) : (k < i \/ k > j) => s[k] = " "
    /\ t = <<>> \/ (t[1] # " " /\ t[Len(t)] # " ")

\* C1: every stored record has a title and an author that are neither empty nor
\* whitespace only, and a Save or Update whose trimmed title or author is empty
\* is rejected without reaching the table.
C1_StoredTitleAuthorNeverBlank ==
  /\ \A i \in 1..Len(rows) : ~Blank(rows[i].title) /\ ~Blank(rows[i].author)
  /\ \A title \in TitleArgs, author \in AuthorArgs, notes \in NotesArgs,
        bookType \in TypeArgs, ioFails \in BOOLEAN :
       Blank(title) \/ Blank(author) =>
         /\ LET r == SaveBook(rows, seq, clock, title, author, bookType, notes, ioFails)
            IN ~r.exec /\ r.rows = rows
         /\ \A id \in 1..MaxId :
              LET r == UpdateBook(rows, seq, clock, id, title, author, bookType,
                                  notes, ioFails)
              IN ~r.exec /\ r.rows = rows

\* a rejected update has left a table that holds records
C1_Witness ==
  /\ last.op = "update" /\ last.err = ValidationErr
  /\ Len(rows) = MaxBooks

\* C2: a Save whose trimmed title or author is empty returns the validation
\* error, not a storage error, before any write: no row is inserted and Count
\* is what it was.
C2_InvalidSaveRejected ==
  \A title \in TitleArgs, author \in AuthorArgs, notes \in NotesArgs,
     bookType \in TypeArgs, ioFails \in BOOLEAN :
    Blank(title) \/ Blank(author) =>
      LET r == SaveBook(rows, seq, clock, title, author, bookType, notes, ioFails)
      IN /\ r.err = ValidationErr
         /\ r.err # StorageErr
         /\ ~r.exec
         /\ r.rows = rows
         /\ r.seq = seq
         /\ GetBookCount(r.rows) = GetBookCount(rows)

\* a Save has been rejected on a table that holds a record
C2_Witness ==
  /\ last.op = "save" /\ last.err = ValidationErr /\ ~last.exec
  /\ GetBookCount(rows) >= 1

\* C3, as claimed: a Save with a valid title and author, followed by LoadAll,
\* yields exactly one new record, holding the trimmed title and author and the
\* given type, or the default type when none is given; the records stored
\* before are all returned unchanged.
C3_SaveThenLoadAll ==
  \A title \in TitleArgs, author \in AuthorArgs, notes \in NotesArgs,
     bookType \in SaveTypeArgs :
    (/\ ~Blank(title) /\ ~Blank(author)
     /\ \A t \in TitleArgs : IsTrimOf(t, title) => Len(t) <= CharLimit
     /\ \A a \in AuthorArgs : IsTrimOf(a, author) => Len(a) <= CharLimit) =>
      LET r == SaveBook(rows, seq, clock, title, author, bookType, notes, FALSE)
      IN /\ r.err = NoErr
         /\ \A bs \in LoadBooks(r.rows) :
              /\ Len(bs) = Len(rows) + 1
              /\ \A i \in 1..Len(rows) : \E j \in 1..Len(bs) : bs[j] = rows[i]
              /\ \E j \in 1..Len(bs) :
                   /\ bs[j].id \notin Ids(rows)
                   /\ IsTrimOf(bs[j].title, title)
                   /\ IsTrimOf(bs[j].author, author)
                   /\ bs[j].type = IF bookType = NoType THEN DefaultType
                                   ELSE bookType
                   /\ \A k \in 1..Len(bs) : k # j => bs[k].id \in Ids(rows)

\* the record with this id after a valid update
Updated(id, title, author, bookType, notes) ==
  RowOf(UpdateBook(rows, seq, clock, id, title, author, bookType, notes, FALSE).rows,
        id)

\* C4, as claimed: after Update of a stored id LoadAll shows the new values, an
\* updated_at strictly greater than the one before, and the same created_at.
C4_UpdateStrictlyLater ==
  /\ (last.op = "update" /\ last.err = NoErr /\ last.hit = 1) =>
       RowOf(rows, last.id).updated_at > last.before
  /\ \A id \in Ids(rows), title \in TitleArgs, author \in AuthorArgs,
     notes \in NotesArgs, bookType \in TypeArgs :
    ~Blank(title) /\ ~Blank(author) =>
      LET old == RowOf(rows, id)
          new == Updated(id, title, author, bookType, notes)
      IN /\ IsTrimOf(new.title, title) /\ IsTrimOf(new.author, author)
         /\ new.type = bookType /\ IsTrimOf(new.notes, notes)
         /\ new.created_at = old.created_at

\* C4, amended: after Update of a stored id LoadAll shows the new values, the
\* same created_at and an updated_at equal to the current second: never before
\* the old updated_at, and after it only when the clock has moved since.
C4_UpdateRefreshesStamp ==
  /\ (last.op = "update" /\ last.err = NoErr /\ last.hit = 1) =>
       RowOf(rows, last.id).updated_at >= last.before
  /\ \A id \in Ids(rows), title \in TitleArgs, author \in AuthorArgs,
     notes \in NotesArgs, bookType \in TypeArgs :
    ~Blank(title) /\ ~Blank(author) =>
      LET old == RowOf(rows, id)
          r == UpdateBook(rows, seq, clock, id, title, author, bookType, notes, FALSE)
          new == Updated(id, title, author, bookType, notes)
      IN /\ r.err = NoErr
         /\ \A bs \in LoadBooks(r.rows) : \E j \in 1..Len(bs) : bs[j] = new
         /\ new.id = id
         /\ IsTrimOf(new.title, title) /\ IsTrimOf(new.author, author)
         /\ new.type = bookType /\ IsTrimOf(new.notes, notes)
         /\ new.updated_at = clock
         /\ new.updated_at >= old.updated_at
         /\ (clock > old.updated_at => new.updated_at > old.updated_at)
         /\ new.created_at = old.created_at

\* an update has refreshed the stamp of a record created a second earlier
C4_Witness ==
  /\ last.op = "update" /\ last.err = NoErr /\ last.hit = 1
  /\ \E i \in 1..Len(rows) :
       rows[i].id = last.id /\ rows[i].updated_at > rows[i].created_at

\* C5: after Delete of a stored id LoadAll no longer holds that id and Count is
\* one less.
C5_DeleteRemovesOne ==
  \A id \in Ids(rows) :
    LET r == DeleteBook(rows, seq, id, FALSE)
    IN /\ r.err = NoErr
       /\ \A bs \in LoadBooks(r.rows) : \A j \in 1..Len(bs) : bs[j].id # id
       /\ GetBookCount(r.rows) = GetBookCount(rows) - 1

\* a delete has removed one of two records
C5_Witness ==
  /\ last.op = "delete" /\ last.err = NoErr /\ last.hit = 1
  /\ GetBookCount(rows) = 1
  /\ last.id \notin Ids(rows)

\* the ids no stored record has
UnknownIds == (1..MaxId) \ Ids(rows)

\* the store as it is left by an Update or a Delete that has found no record
Untouched(r) ==
  /\ r.err = NoErr
  /\ r.rows = rows
  /\ GetBookCount(r.rows) = GetBookCount(rows)

\* C26 as stated: Update and Delete called with an id that is not in the store
\* return no error and leave every stored record and Count unchanged,
\* whatever the other arguments.
C26_UnknownIdIsNoError ==
  \A id \in UnknownIds :
    /\ Untouched(DeleteBook(rows, seq, id, FALSE))
    /\ \A title \in TitleArgs, author \in AuthorArgs, notes \in NotesArgs,
          bookType \in TypeArgs :
         Untouched(UpdateBook(rows, seq, clock, id, title, author, bookType, notes,
                              FALSE))

\* C26: Delete called with an id that is not in the store, and Update called
\* with such an id and a title and an author that are not blank, return no
\* error and leave every stored record and Count unchanged; an Update with a
\* blank title or author is rejected whatever the id.
C26_UnknownIdValidArgs ==
  \A id \in UnknownIds :
    /\ Untouched(DeleteBook(rows, seq, id, FALSE))
    /\ \A title \in TitleArgs, author \in AuthorArgs, notes \in NotesArgs,
          bookType \in TypeArgs :
         LET r == UpdateBook(rows, seq, clock, id, title, author, bookType, notes,
                             FALSE)
         IN IF Invalid(TrimSpace(title), TrimSpace(author))
              THEN r.err = ValidationErr /\ r.rows = rows
              ELSE Untouched(r)

\* an Update of an id that is not in the store has returned no error on a
\* store that holds a record
C26_Witness ==
  /\ last.op = "update" /\ last.err = NoErr /\ last.exec /\ last.hit = 0
  /\ rows # <<>>
  /\ last.id \in UnknownIds

\* bs holds every stored row exactly once
HoldsEachRowOnce(bs) ==
  /\ Len(bs) = Len(rows)
  /\ \A i \in 1..Len(rows) :
       Cardinality({j \in 1..Len(bs) : bs[j] = rows[i]}) = 1

\* C27: LoadAll returns every stored row exactly once and a record
\* created later, which has the larger id, never appears after a record
\* created earlier; on an empty store it returns an empty sequence.
C27_LaterCreatedFirst ==
  /\ LoadBooks(rows) # {}
  /\ \A bs \in LoadBooks(rows) :
       /\ HoldsEachRowOnce(bs)
       /\ \A i, j \in 1..Len(bs) : i < j => bs[i].id > bs[j].id

\* a text of n characters
TextOf(n) == [i \in 1..n |-> "a"]

\* the arguments of a save or update of which one is over its limit by one
\* character, and those that are exactly at the limits
OverLimit ==
  {[title |-> TextOf(CharLimit + 1), author |-> <<"a">>, notes |-> <<>>],
   [title |-> <<"a">>, author |-> TextOf(CharLimit + 1), notes |-> <<>>],
   [title |-> <<"a">>, author |-> <<"a">>, notes |-> TextOf(NotesCharLimit + 1)]}

AtLimit ==
  [title |-> TextOf(CharLimit), author |-> TextOf(CharLimit),
   notes |-> TextOf(NotesCharLimit)]

\* the call is rejected before the store is reached, and nothing is written
RejectedUnwritten(r) == r.err = ValidationErr /\ ~r.exec /\ r.rows = rows

\* C28: a save or update whose trimmed title or author is longer than 255
\* characters, or whose notes are longer than 1000 characters, produces the
\* validation error before any store call and nothing is written; values of
\* exactly 255 and 1000 characters are accepted.
C28_OverlongRejected ==
  /\ \A a \in OverLimit :
       /\ RejectedUnwritten(SaveBook(rows, seq, clock, a.title, a.author, Paperback,
                                     a.notes, FALSE))
       /\ \A id \in 1..MaxId :
            RejectedUnwritten(UpdateBook(rows, seq, clock, id, a.title, a.author,
                                         Paperback, a.notes, FALSE))
  /\ SaveBook(rows, seq, clock, AtLimit.title, AtLimit.author, Paperback,
              AtLimit.notes, FALSE).err = NoErr
  /\ \A id \in 1..MaxId :
       UpdateBook(rows, seq, clock, id, AtLimit.title, AtLimit.author, Paperback,
                  AtLimit.notes, FALSE).err = NoErr

\* C29: in every reachable store state Count equals the number of records
\* LoadAll returns; it is 0 for a newly created store and increases by exactly
\* one with each successful Save.
C29_CountIsNumberLoaded ==
  /\ \A bs \in LoadBooks(rows) : GetBookCount(rows) = Len(bs)
  /\ (last.op = "open" => GetBookCount(rows) = 0)
  /\ \A title \in TitleArgs, author \in AuthorArgs, notes \in NotesArgs,
        bookType \in TypeArgs :
       LET r == SaveBook(rows, seq, clock, title, author, bookType, notes, FALSE)
       IN r.err = NoErr =>
            /\ GetBookCount(r.rows) = GetBookCount(rows) + 1
            /\ \A bs \in LoadBooks(r.rows) : GetBookCount(r.rows) = Len(bs)

\* a successful Save has filled the table, which holds two records of one title
C29_Witness ==
  /\ last.op = "save" /\ last.err = NoErr
  /\ GetBookCount(rows) = MaxBooks
  /\ \E i, j \in 1..Len(rows) : i # j /\ rows[i].title = rows[j].title

\* the records of rs whose id is not this one, in rowid order
OtherThan(rs, id) == SelectSeq(rs, LAMBDA r : r.id # id)

\* C30: a record's id is stable and is the sole key for update and delete:
\* Update(id, ...) and Delete(id) affect only the record whose id equals the
\* argument, every other record's id, title, author, type, notes, created_at
\* and updated_at are unchanged, and no record's id ever changes.
C30_IdIsSoleKey ==
  /\ \A id \in Ids(rows) : Hits(rows, id) = 1
  /\ \A id \in 1..MaxId, ioFails \in BOOLEAN :
       /\ \A title \in TitleArgs, author \in AuthorArgs, notes \in NotesArgs,
             bookType \in TypeArgs :
            LET u == UpdateBook(rows, seq, clock, id, title, author, bookType,
                                notes, ioFails).rows
            IN /\ OtherThan(u, id) = OtherThan(rows, id)
               /\ Len(u) = Len(rows)
               /\ \A i \in 1..Len(rows) : u[i].id = rows[i].id
       /\ LET d == DeleteBook(rows, seq, id, ioFails).rows
          IN /\ OtherThan(d, id) = OtherThan(rows, id)
             /\ \A i \in 1..Len(d) : d[i] \in {rows[j] : j \in 1..Len(rows)}

\* an update has changed one of two records that differ
C30_Witness ==
  /\ last.op = "update" /\ last.err = NoErr /\ last.hit = 1
  /\ \E i, j \in 1..Len(rows) :
       /\ rows[i].id = last.id /\ rows[j].id # last.id
       /\ rows[i].title # rows[j].title
       /\ rows[i].updated_at > rows[j].updated_at

\* the step leaves alone the timestamps of every record it keeps, unless it is
\* an update of that record, and stamps a new record with one time twice
StampsKept ==
  \A i \in 1..Len(rows') :
    IF rows'[i].id \in Ids(rows)
      THEN (last'.op = "update" /\ last'.id = rows'[i].id)
             \/ (/\ rows'[i].created_at = RowOf(rows, rows'[i].id).created_at
                 /\ rows'[i].updated_at = RowOf(rows, rows'[i].id).updated_at)
      ELSE rows'[i].created_at = rows'[i].updated_at

\* C31: for every stored record at every time updated_at >= created_at, and the
\* two timestamps have a value and are equal to each other for a record that
\* has been saved and never updated.
C31_StampsOrdered ==
  /\ [](\A i \in 1..Len(rows) :
          /\ rows[i].created_at \in 0..MaxClock
          /\ rows[i].updated_at \in 0..MaxClock
          /\ rows[i].updated_at >= rows[i].created_at)
  /\ [][StampsKept]_vars

\* a record saved after the first second and never updated, next to one updated
\* after its creation
C31_Witness ==
  /\ last.op = "save" /\ last.err = NoErr
  /\ \E i, j \in 1..Len(rows) :
       /\ rows[i].id = last.id
       /\ rows[i].created_at > 0 /\ rows[i].updated_at = rows[i].created_at
       /\ rows[j].updated_at > rows[j].created_at

(***************************************************************************)
(* Claims about the forms and the router, checked under Spec.              *)
(***************************************************************************)
\* N: the slots of a form, the submit slot being the last
NumSlots == NumInputs + 3

OnForm(m) == m.currentScreen \in {AddBookScreen, EditBookScreen}

\* the form on screen
FormOf(m) == IF m.currentScreen = AddBookScreen THEN m.addBook ELSE m.edit

\* the model after this key, pressed now
AfterKey(key) == Update(model, KeyMsg(key), GetBookCount(rows), IoOk).m

\* the screen whose component issues the command a result message belongs to
IssuerOf(type) ==
  IF type = "SaveMsg" THEN AddBookScreen
  ELSE IF type = "UpdateMsg" THEN EditBookScreen
  ELSE BookDetailScreen

\* C6: the result message of every dispatched save, update or delete is
\* delivered to the component that issued it, whatever keys were pressed in
\* between: when the event loop hands such a message to Update, the screen of
\* its issuer is the current screen.
C6_ResultReachesIssuer ==
  [][(/\ phase = "running"
      /\ msgs # <<>>
      /\ msgs' = Tail(msgs)
      /\ Head(msgs).type \in {"SaveMsg", "UpdateMsg", "DeleteMsg"})
       => model.currentScreen = IssuerOf(Head(msgs).type)]_vars

\* the saves and updates started and not yet handled by Update
SubmitsInFlight ==
  Cardinality({i \in 1..Len(cmds) : cmds[i].kind \in {"save", "update"}})
  + Cardinality({i \in 1..Len(msgs) : msgs[i].type \in {"SaveMsg", "UpdateMsg"}})

\* C7: at most one submit is in flight: no second save or update is started
\* before the result message of the first has been handled.
C7_OneSubmitInFlight == SubmitsInFlight <= 1

\* exactly the slot focused addresses reports itself focused
OneSlotFocused(f) ==
  /\ f.focused \in 0..NumSlots - 1
  /\ \A i \in 1..NumInputs : f.inputs[i].focus <=> f.focused = i - 1
  /\ f.textarea.focus <=> f.focused = NumInputs + 1

\* C8: in the Add and Edit forms focusIndex is in 0..N-1 and the widget it
\* addresses is the only one that reports itself focused; no widget does when
\* it addresses the selector or the submit slot.
C8_ExactlyOneSlotFocused ==
  OneSlotFocused(model.addBook) /\ OneSlotFocused(model.edit)

\* the focused text slot has its cursor at the end
CursorsAtEnd(f) ==
  /\ \A i \in 1..NumInputs :
       f.inputs[i].focus => f.inputs[i].pos = Len(f.inputs[i].value)
  /\ f.textarea.focus => f.textarea.pos = Len(f.textarea.value)

\* the keys the claim calls forward navigation, at this slot
ForwardKeys(focused) ==
  {"down"} \union (IF focused # NumSlots - 1 THEN {"enter"} ELSE {})
           \union (IF focused # NumInputs THEN {"tab"} ELSE {})

\* C9, as claimed: Tab, Down, and Enter off the submit slot set focusIndex to
\* (focusIndex + 1) mod N, Tab on the selector excepted; the newly focused text
\* or multi-line slot is focused with its cursor at the end of its value and
\* every other slot is blurred.
C9_ForwardKeysAdvance ==
  OnForm(model) =>
    \A key \in ForwardKeys(FormOf(model).focused) :
      LET f == FormOf(AfterKey(key))
      IN /\ f.focused = (FormOf(model).focused + 1) % NumSlots
         /\ OneSlotFocused(f)
         /\ CursorsAtEnd(f)

\* the keys the claim calls backward navigation, at this slot
BackwardKeys(focused) ==
  {"up"} \union (IF focused # NumInputs THEN {"shift+tab"} ELSE {})

\* C10, as claimed: Shift+Tab and Up set focusIndex to (focusIndex - 1 + N)
\* mod N, Shift+Tab on the selector excepted, so that a step back from slot 0
\* lands on slot N-1.
C10_BackwardKeysRetreat ==
  OnForm(model) =>
    \A key \in BackwardKeys(FormOf(model).focused) :
      FormOf(AfterKey(key)).focused =
        (FormOf(model).focused - 1 + NumSlots) % NumSlots

\* the model after this key, pressed on m
After(m, key) == Update(m, KeyMsg(key), GetBookCount(rows), IoOk).m

\* the models one key on from the models ms, the key being one of keys that
\* is a forward-navigation key at the slot focused
ForwardStep(ms, keys) ==
  UNION {{After(m, k) : k \in keys \cap ForwardKeys(FormOf(m).focused)} : m \in ms}

RECURSIVE ForwardSteps(_, _, _)
ForwardSteps(ms, keys, n) ==
  IF n = 0 THEN ms ELSE ForwardSteps(ForwardStep(ms, keys), keys, n - 1)

\* the model with the form on screen replaced by f
WithForm(m, f) ==
  IF m.currentScreen = AddBookScreen THEN [m EXCEPT !.addBook = f]
  ELSE [m EXCEPT !.edit = f]

RECURSIVE Rights(_, _)
\* the model after Right has been pressed k times on m
Rights(m, k) == IF k = 0 THEN m ELSE Rights(After(m, "right"), k - 1)

\* C11, as claimed: from any slot of a form, N consecutive forward-navigation
\* transitions (Tab, Down, Enter off the submit slot) return focusIndex to the
\* slot it started from; the selector is one focus stop whatever choice it
\* shows: one forward step leaves it.
C11_ForwardCycleReturns ==
  OnForm(model) =>
    /\ \A m \in ForwardSteps({model}, {"tab", "down", "enter"}, NumSlots) :
         FormOf(m).focused = FormOf(model).focused
    /\ FormOf(model).focused = NumInputs =>
         \A k \in 0..Len(bookTypes) - 1 :
           \A m \in ForwardSteps({Rights(model, k)}, {"tab", "down", "enter"}, 1) :
             FormOf(m).focused = NumInputs + 1

\* C12: while focusIndex addresses the selector, Right moves the choice to
\* (choice + 1) mod count and Left to (choice - 1 + count) mod count, and
\* nothing else of the program changes: not focusIndex, not a field value; k
\* Right presses in a row from choice s land on (s + k) mod count.
C12_SelectorCycles ==
  (OnForm(model) /\ FormOf(model).focused = NumInputs) =>
    LET f == FormOf(model)
        count == Len(bookTypes)
    IN /\ After(model, "right") =
            WithForm(model, [f EXCEPT !.selectedType = (f.selectedType + 1) % count])
       /\ After(model, "left") =
            WithForm(model, [f EXCEPT !.selectedType = (f.selectedType - 1 + count) % count])
       /\ \A k \in 1..2 * count :
            Rights(model, k) =
              WithForm(model, [f EXCEPT !.selectedType = (f.selectedType + k) % count])

\* Right has been pressed on the selector of the Add form once for every
\* choice, and the choice is the first one again
C12_Witness ==
  /\ ev.key = "right" /\ ev.run = Len(bookTypes) /\ ev.focused = NumInputs
  /\ model.currentScreen = AddBookScreen
  /\ model.addBook.focused = NumInputs
  /\ model.addBook.selectedType = 0

\* a save or an update has been started in this step
Dispatched ==
  /\ Len(cmds') = Len(cmds) + 1
  /\ cmds'[Len(cmds')].kind \in {"save", "update"}

\* Enter has been pressed in this step with the submit slot of a form focused
EnterOnSubmit ==
  /\ pressed' = pressed + 1
  /\ ev'.key = "enter" /\ ev'.focused = NumSlots - 1

\* the slots of the forms of main.go: the inputs and the button
LegacySlots == NumInputs + 1

\* the program of main.go has started a save or an update in this step
LegacyDispatched ==
  /\ Len(legacy'.cmds) = Len(legacy.cmds) + 1
  /\ legacy'.cmds[Len(legacy'.cmds)].kind \in {"save", "update"}

\* C13: the save or update is dispatched exactly when Enter is pressed while
\* focusIndex is N-1, the submit slot: no other key and no other slot
\* dispatches it, and focusIndex is N-1 after the attempt.  Stated of the Add
\* and Edit forms of the screens and of the forms of main.go.
C13_SubmitOnlyOnSubmitSlot ==
  [][/\ Dispatched <=> EnterOnSubmit
     /\ Dispatched =>
          /\ model'.currentScreen = model.currentScreen
          /\ OnForm(model')
          /\ FormOf(model').focused = NumSlots - 1
          /\ cmds'[Len(cmds')].kind =
               (IF model.currentScreen = AddBookScreen THEN "save" ELSE "update")
     /\ LegacyDispatched <=>
          (legacy'.key = "enter" /\ legacy'.focused = LegacySlots - 1)
     /\ LegacyDispatched => legacy'.m.focused = LegacySlots - 1]_vars

\* the event loop hands the message of a save that succeeded to the Add form
SaveSucceeds ==
  /\ phase = "running"
  /\ msgs # <<>>
  /\ msgs' = Tail(msgs)
  /\ Head(msgs) = SaveMsg(NoErr)
  /\ model.currentScreen = AddBookScreen

\* C14: when a save completes successfully the Add form clears title, author
\* and notes, resets focusIndex to 0 and sets the success flag, and is left in
\* the state of a fresh entry: but for the flag it is the form a new Add
\* screen shows.
C14_SaveLeavesFreshForm ==
  [][SaveSucceeds => model'.addBook = [NewAddBookModel EXCEPT !.saved = TRUE]]_vars

\* the event loop hands the message of a save that failed to the Add form, or
\* that of an update that failed to the Edit form
SubmitFails ==
  /\ phase = "running"
  /\ msgs # <<>>
  /\ msgs' = Tail(msgs)
  /\ Head(msgs).err # NoErr
  /\ \/ Head(msgs).type = "SaveMsg" /\ model.currentScreen = AddBookScreen
     \/ Head(msgs).type = "UpdateMsg" /\ model.currentScreen = EditBookScreen

\* C15: when the form handles the completion of a save or update that failed,
\* its pending error becomes the returned error, and focusIndex, every field
\* value and the selector choice, as all else of the program, stay what they
\* were.
C15_FailureKeepsForm ==
  [][SubmitFails =>
       model' = WithForm(model, [FormOf(model) EXCEPT !.err = Head(msgs).err])]_vars

\* the Add form shows the error of a save that failed, with the title that was
\* typed and the focus on the save button
C15_Witness ==
  /\ model.currentScreen = AddBookScreen
  /\ model.addBook.err = ValidationErr
  /\ model.addBook.inputs[1].value = <<"a">>
  /\ model.addBook.focused = NumSlots - 1
  /\ cmds = <<>> /\ msgs = <<>>

\* the Edit form handles, in this step, the successful completion of the only
\* update that is outstanding: the one last describes
UpdateSucceeds ==
  /\ phase = "running"
  /\ msgs # <<>>
  /\ msgs' = Tail(msgs)
  /\ Head(msgs) = UpdateMsg(NoErr)
  /\ model.currentScreen = EditBookScreen
  /\ model.edit.SelectedBook.arr = "books"
  /\ \A i \in 1..Len(cmds) : cmds[i].kind # "update"
  /\ \A i \in 2..Len(msgs) : msgs[i].type # "UpdateMsg"
  /\ last.op = "update" /\ last.err = NoErr

\* C16: when an update completes successfully the Edit form requests the
\* Detail screen and the in-memory selected record then holds exactly the
\* title, author, type and notes submitted with that update, whatever keys
\* were applied to the form between the submit and its completion.
C16_CopiesSubmittedValues ==
  [][UpdateSucceeds =>
       /\ model'.currentScreen = BookDetailScreen
       /\ LET b == model'.listBooks.books[model.edit.SelectedBook.i]
          IN /\ b.title = last.title
             /\ b.author = last.author
             /\ b.type = last.type
             /\ b.notes = last.notes]_vars

\* Esc is pressed in this step on a form whose session has dispatched nothing
EscBeforeSubmit ==
  /\ phase = "running"
  /\ pressed' = pressed + 1
  /\ OnForm(model)
  /\ \E io \in Ios : model' = Update(model, KeyMsg("esc"), GetBookCount(rows), io).m
  /\ ~session.submitted

\* C17, as claimed: a form session that Esc ends before any submit has no
\* side effect: LoadAll returns the records it returned when the session
\* started and the in-memory records, the selected one included, are as they
\* were then, whatever was typed into the form.
C17_CancelHasNoEffect ==
  [][EscBeforeSubmit =>
       /\ LoadBooks(rows') = LoadBooks(session.rows)
       /\ model'.listBooks.books = session.books
       /\ model'.detail.SelectedBook = model.detail.SelectedBook]_vars

\* the form as a session finds it when the Edit screen is entered for this book
PopulatedFrom(m, p, book) ==
  /\ m.SelectedBook = p
  /\ m.inputs[1].value = book.title
  /\ m.inputs[2].value = book.author
  /\ m.textarea.value = book.notes
  /\ bookTypes[m.selectedType + 1] = book.type
  /\ m.focused = 0
  /\ m.err = NoErr
  /\ m.inputs[1].focus /\ ~m.inputs[2].focus /\ ~m.textarea.focus

DeleteSettled ==
  /\ phase = "running"
  /\ last.op = "delete" /\ last.err = NoErr /\ last.hit > 0
  /\ cmds = <<>> /\ msgs = <<>>

\* C19: after a successful delete the list is fetched again: once the delete's
\* completion and the reload have been handled, the List screen, showing no
\* load error, holds a list without the deleted record, whatever keys were
\* pressed between the dispatch of the delete and then.
C19_ListDropsDeleted ==
  (/\ DeleteSettled
   /\ model.currentScreen = ListBooksScreen
   /\ model.listBooks.err = NoErr)
    => last.id \notin Ids(model.listBooks.books)

\* the List screen is entered in this step
ListEntered ==
  /\ model.currentScreen # ListBooksScreen
  /\ model'.currentScreen = ListBooksScreen

\* C20: every entry into the List screen, from the menu and on return from the
\* Detail screen alike, starts a LoadAll: the step that enters the screen
\* dispatches the command that loads the books.
C20_EntryLoads ==
  [][ListEntered => /\ Len(cmds') = Len(cmds) + 1
                    /\ cmds'[Len(cmds')] = LoadBooksCmd]_vars

\* the menu shows the entries that lead to the list
ListEntriesShown(m) ==
  \E i, j \in 1..Len(m.items) : m.items[i] = "View Books" /\ m.items[j] = "Utilities"

\* C22: whenever the main menu is the current screen, and every save and delete
\* that was dispatched has completed and been handled, View Books and Utilities
\* are shown if and only if the store's Count is greater than zero: the menu
\* never lags behind a completed save or delete.
C22_MenuFollowsCount ==
  (/\ model.currentScreen = MenuScreen
   /\ phase = "running"
   /\ cmds = <<>> /\ msgs = <<>>)
    => (ListEntriesShown(model.menu) <=> GetBookCount(rows) > 0)

\* C23: from every screen and every form state Ctrl+C closes the store and
\* starts tea.Quit; once a tea.Quit has been started the event loop ends and
\* the process then terminates, the store closed before it does.
C23_HardQuitTerminates ==
  /\ [](phase = "running" =>
          \A io \in Ios :
            LET r == Update(model, KeyMsg("ctrl+c"), GetBookCount(rows), io)
            IN r.m = model /\ r.cmd = Quit /\ r.closes)
  /\ [](phase = "exited" => closes >= 1)
  /\ (QuitsIn(cmds, msgs) > 0 ~> phase = "exited")

\* the process has terminated on Ctrl+C pressed on the path-entry form of the
\* Export screen with text typed into it
C23_Witness ==
  /\ phase = "exited"
  /\ closes >= 2
  /\ model.currentScreen = ExportScreen
  /\ model.exportScreen.state = PathInput
  /\ model.exportScreen.pathInput.value # <<>>

(***************************************************************************)
(* Claims about the list, checked under SpecList.                          *)
(***************************************************************************)
\* the places of the list that are in view
Window(m) == m.offset..(m.offset + pageSize - 1)

\* the list after Up or Down: the index has moved by one, or stands at the
\* end it was at, and the offset has changed only for an index out of view,
\* which it has brought into view
MovedBy(m, n, step) ==
  /\ n.index = IF m.index + step \in 0..(Len(m.books) - 1) THEN m.index + step
               ELSE m.index
  /\ n.offset # m.offset => n.index \notin Window(m) /\ n.index \in Window(n)
  /\ n.books = m.books

C36_SelectionInWindow ==
  (model.currentScreen = ListBooksScreen /\ model.listBooks.books # <<>>) =>
    model.listBooks.index \in Window(model.listBooks)

\* C37: whenever the book list is non-empty, 0 <= index < number of loaded
\* records, after any sequence of keys and LoadBooksMsg results (including
\* reloads that return fewer records than before or none), so Enter always
\* yields an element that is in the loaded list.
C37_IndexInList ==
  model.listBooks.books # <<>> =>
    /\ model.listBooks.index \in 0..(Len(model.listBooks.books) - 1)
    /\ model.currentScreen = ListBooksScreen =>
         LET chosen == Update(model, KeyMsg("enter"), GetBookCount(rows), IoOk)
                         .m.detail.SelectedBook
         IN /\ chosen.arr = "books"
            /\ chosen.i \in 1..Len(model.listBooks.books)

\* the last book of the list has been deleted, and the reload, which returned
\* one book fewer, has brought the index back to the book now last
C37_Witness ==
  /\ model.currentScreen = ListBooksScreen
  /\ last.op = "delete" /\ last.err = NoErr /\ last.id = 1
  /\ Len(model.listBooks.books) = MaxListed - 1
  /\ model.listBooks.index = MaxListed - 2
  /\ cmds = <<>> /\ msgs = <<>>

(***************************************************************************)
(* Claims about quitting and the export screen.                            *)
(***************************************************************************)
\* the active screen is a data-entry form: Add, Edit, or the path entry of the
\* export screen
OnDataEntry(m) ==
  \/ m.currentScreen \in {AddBookScreen, EditBookScreen}
  \/ m.currentScreen = ExportScreen /\ m.exportScreen.state = PathInput

\* the text a data-entry form holds
Typed(m) ==
  <<m.addBook.inputs[1].value, m.addBook.inputs[2].value, m.addBook.textarea.value,
    m.edit.inputs[1].value, m.edit.inputs[2].value, m.edit.textarea.value,
    m.exportScreen.pathInput.value>>

\* C24: q terminates the process on every screen but the data-entry forms;
\* while the active screen is the Add form, the Edit form or the path entry of
\* the export screen, q does not terminate the process and no text that has
\* been typed is lost.
C24_SoftQuitSparesForms ==
  phase = "running" =>
    LET r == Update(model, KeyMsg("q"), GetBookCount(rows), IoOk)
    IN IF OnDataEntry(model)
         THEN /\ r.cmd # Quit /\ ~r.closes
              /\ r.m.currentScreen = model.currentScreen
              /\ \A i \in 1..Len(Typed(model)) :
                    Len(Typed(r.m)[i]) >= Len(Typed(model)[i])
         ELSE r.cmd = Quit

\* C25: on every quit path (Ctrl+C, q and the menu's Quit entry) the store
\* opened at the start has been closed exactly once when the process has
\* exited: not zero times and not twice.
C25_ClosedExactlyOnce ==
  phase = "exited" => closes = 1


(***************************************************************************)
(* Claims about what is dispatched and what completes, checked under Spec  *)
(* and SpecExport.                                                         *)
(***************************************************************************)
\* the step starts a command
Dispatches == Len(cmds') = Len(cmds) + 1

\* a delete of this record has been started and has not yet run
DeletePending(id) ==
  \E j \in 1..Len(cmds) : cmds[j].kind = "delete" /\ cmds[j].id = id

\* C33: an update or delete is only ever dispatched for a record that still
\* exists in the store: once a delete of the selected record has been
\* dispatched from the Detail screen, no second delete of it and no edit of it
\* can be dispatched, whatever keystrokes arrive before the delete's completion
\* message.
C33_DispatchedForStoredOnly ==
  [][Dispatches =>
       LET c == cmds'[Len(cmds')]
       IN c.kind \in {"update", "delete"} =>
            /\ c.id \in Ids(rows)
            /\ ~DeletePending(c.id)]_vars

\* the step hands Update the completion message of a save while the Add form
\* shown was entered after that save was dispatched and has submitted nothing
StaleSaveDelivered ==
  /\ msgs # <<>> /\ Head(msgs).type = "SaveMsg"
  /\ msgs' = Tail(msgs)
  /\ model.currentScreen = AddBookScreen
  /\ session.screen = AddBookScreen /\ ~session.submitted

\* C34: a completion message produced by an operation that was dispatched in an
\* earlier, abandoned session never changes the state of a later session: a
\* SaveMsg from an Add session left with Esc does not clear or flag a newly
\* entered Add form (and likewise a BackupMsg of an abandoned export and a
\* later export).
C34_StaleResultIgnored ==
  [][StaleSaveDelivered => model'.addBook = model.addBook]_vars

\* the Edit form on screen with this text typed into it
EditHolding(title, author, notes) ==
  [model.edit EXCEPT !.inputs[1].value = title, !.inputs[2].value = author,
                     !.textarea.value = notes]

\* C35: after a successful edit, the in-memory record shown by the Detail and
\* List screens agrees with the Record Store: its title, author, type and notes
\* equal those LoadAll returns for the same id, for every form input including
\* values with surrounding whitespace.  The form on screen is submitted with
\* each text, its command runs and its UpdateMsg is handled.
C35_MemoryAgreesWithStore ==
  (/\ model.currentScreen = EditBookScreen
   /\ model.edit.SelectedBook.arr = "books"
   /\ cmds = <<>> /\ msgs = <<>>) =>
    \A title \in TitleArgs, author \in AuthorArgs, notes \in NotesArgs :
      LET form == EditHolding(title, author, notes)
          c == updateBookCmd(form, model.listBooks.books)
          r == UpdateBook(rows, seq, clock, c.id, title, author,
                          bookTypes[c.selectedType + 1], c.notes, FALSE)
          done == EditUpdate(form, UpdateMsg(r.err), model.listBooks.books)
          b == done.books[form.SelectedBook.i]
      IN (r.err = NoErr /\ c.id \in Ids(rows)) =>
           /\ done.screen = BookDetailScreen
           /\ \A bs \in LoadBooks(r.rows) :
                \E j \in 1..Len(bs) :
                  /\ bs[j].id = b.id
                  /\ bs[j].title = b.title /\ bs[j].author = b.author
                  /\ bs[j].type = b.type /\ bs[j].notes = b.notes

\* C38: in the Add form the success flag and the pending error describe only
\* the most recently completed save: after any sequence of submits they are
\* never both set at the same time.
C38_SavedOrErrNotBoth ==
  model.currentScreen = AddBookScreen =>
    ~(model.addBook.saved /\ model.addBook.err # NoErr)

(***************************************************************************)
(* Claims about the exports, checked under SpecBackup.                     *)
(***************************************************************************)
\* the lines of one kind of the Markdown document written last
LinesOf(kind) == SelectSeq(last.file, LAMBDA l : l.kind = kind)

\* the text with every byte that is not valid UTF-8 replaced by U+FFFD
ToValidUTF8(t) ==
  [i \in 1..Len(t) |-> IF t[i] = InvalidByte THEN ReplacementChar ELSE t[i]]

Noted(books) == SelectSeq(books, LAMBDA b : b.notes # <<>>)

\* the documents hold one entry for each book given, in the order given
OneEntryEach ==
  /\ (last.op = "json" /\ last.err = NoErr) =>
       /\ last.file.total_books = Len(rows)
       /\ Len(JSONBooks(last.file)) = Len(rows)
       /\ (rows = <<>> => last.file.total_books = 0)
  /\ (last.op = "markdown" /\ last.err = NoErr) =>
       /\ Len(LinesOf("heading")) = Len(rows)
       /\ Len(LinesOf("author")) = Len(rows)
       /\ Len(LinesOf("type")) = Len(rows)
       /\ Len(LinesOf("rule")) = Len(rows)
       /\ Len(LinesOf("notes")) = Len(Noted(rows))
       /\ \A i \in 1..Len(rows) : LinesOf("heading")[i].n = i

\* C32, as claimed: the JSON export and the Markdown export each include every
\* record passed to them, exactly once, with title, author, type and notes
\* preserved verbatim; the JSON total_books equals the number of records, and an
\* empty list exports successfully with total_books 0.
C32_ExportsVerbatim ==
  /\ OneEntryEach
  /\ (last.op = "json" /\ last.err = NoErr) =>
       \A i \in 1..Len(rows) :
         LET b == JSONBooks(last.file)[i]
         IN /\ b.title = rows[i].title /\ b.author = rows[i].author
            /\ b.type = rows[i].type /\ b.notes = rows[i].notes
  /\ (last.op = "markdown" /\ last.err = NoErr) =>
       /\ \A i \in 1..Len(rows) :
            /\ LinesOf("heading")[i].text = rows[i].title
            /\ LinesOf("author")[i].text = rows[i].author
            /\ LinesOf("type")[i].text = rows[i].type
       /\ \A i \in 1..Len(Noted(rows)) :
            LinesOf("notes")[i].text = Noted(rows)[i].notes

\* C32, amended: each export includes every record passed to it, exactly once
\* and in order.  The JSON export preserves the type verbatim, and the title,
\* author and notes verbatim but for bytes that are not valid UTF-8, each of
\* which it replaces by U+FFFD.  The Markdown export preserves title, author
\* and non-empty notes verbatim, and shows the type by its display name
\* (Paperback for paperback, Digital for digital).  The JSON total_books equals
\* the number of records, and an empty list exports with total_books 0.
C32_ExportsRecords ==
  /\ OneEntryEach
  /\ (last.op = "json" /\ last.err = NoErr) =>
       \A i \in 1..Len(rows) :
         LET b == JSONBooks(last.file)[i]
         IN /\ b.id = rows[i].id
            /\ b.title = ToValidUTF8(rows[i].title)
            /\ b.author = ToValidUTF8(rows[i].author)
            /\ b.type = rows[i].type
            /\ b.notes = ToValidUTF8(rows[i].notes)
  /\ (last.op = "markdown" /\ last.err = NoErr) =>
       /\ \A i \in 1..Len(rows) :
            /\ LinesOf("heading")[i].text = rows[i].title
            /\ LinesOf("author")[i].text = rows[i].author
            /\ (rows[i].type = Paperback => LinesOf("type")[i].text = "Paperback")
            /\ (rows[i].type = Digital => LinesOf("type")[i].text = "Digital")
       /\ \A i \in 1..Len(Noted(rows)) :
            LinesOf("notes")[i].text = Noted(rows)[i].notes

\* a Markdown export of two books, the first of them without notes and the
\* second with an escaped character in its title
C32_Witness ==
  /\ last.op = "markdown" /\ last.err = NoErr
  /\ Len(rows) = MaxExported
  /\ rows[1].notes = <<>> /\ rows[2].notes # <<>>
  /\ rows[2].title = <<"<">>
  /\ Len(LinesOf("rule")) = MaxExported


(***************************************************************************)
(* Claims about the export flow, checked under SpecExport.                 *)
(***************************************************************************)
\* the place of a state in the flow
RankOf(state) ==
  IF state = PathInput THEN 0
  ELSE IF state = FormatSelection THEN 1
  ELSE IF state = Exporting THEN 2
  ELSE 3

\* the format of the export the screen is waiting for
FormatAwaited(s) == IF formatItems[s.formatIndex + 1] = "JSON Format" THEN "json"
                    ELSE "markdown"

\* the directory the path typed names: the default directory for an empty
\* path, the home directory put in the place of a leading ~
PathNamed(s) ==
  LET inputPath == TrimSpace(s.pathInput.value)
  IN IF inputPath = <<>> THEN s.defaultExportsDir
     ELSE IF Head(inputPath) = "~" THEN ExpandHome(inputPath, HomeDir)
     ELSE inputPath

\* the path typed is empty, or absolute and accepted by validatePath
PathAccepted(s) ==
  LET inputPath == TrimSpace(s.pathInput.value)
  IN \/ inputPath = <<>>
     \/ /\ Head(inputPath) \in {"/", "~"}
        /\ validatePath(PathNamed(s))

\* the step moves the flow on by one state for the reason the flow allows
FlowStep ==
  LET s == model.exportScreen
      t == model'.exportScreen
  IN /\ RankOf(t.state) > RankOf(s.state) =>
          /\ RankOf(t.state) = RankOf(s.state) + 1
          /\ model.currentScreen = ExportScreen
          /\ model'.currentScreen = ExportScreen
     /\ (s.state = PathInput /\ t.state = FormatSelection) =>
          /\ PathAccepted(s)
          /\ t.exportPath = PathNamed(s)
          /\ ~t.isError
     /\ (Dispatches /\ cmds'[Len(cmds')].kind = "export") =>
          /\ model.currentScreen = ExportScreen
          /\ s.state = FormatSelection /\ t.state = Exporting
          /\ cmds'[Len(cmds')].format = FormatAwaited(t)
     /\ (s.state = FormatSelection /\ t.state = Exporting) =>
          (Dispatches /\ cmds'[Len(cmds')].kind = "export")
     /\ (s.state # ShowResult /\ t.state = ShowResult) =>
          /\ msgs # <<>> /\ msgs' = Tail(msgs)
          /\ Head(msgs).type = "BackupMsg"
          \* when one export only has run, the message is its completion
          \* message, and that export is then the one awaited
          /\ last.op = "export"
          /\ last.only => last.format = FormatAwaited(s)
     /\ (model.currentScreen # ExportScreen /\ model'.currentScreen = ExportScreen) =>
          /\ t.state = PathInput
          /\ t.status = "" /\ ~t.isError
          /\ t.pathInput.value = <<>>

\* C39: the export flow advances only in the order PathInput ->
\* FormatSelection -> Exporting -> ShowResult: FormatSelection is entered from
\* PathInput only with an empty path (default directory) or an accepted absolute
\* path, a rejected path leaves the state at PathInput with an error, an export
\* is dispatched only from FormatSelection, ShowResult is entered only on the
\* export's completion message, and every entry into the Export screen starts
\* at PathInput with cleared status.
C39_ExportFlowInOrder ==
  /\ [][FlowStep]_vars
  /\ []((/\ model.currentScreen = ExportScreen
         /\ model.exportScreen.state = PathInput
         /\ ~PathAccepted(model.exportScreen)) =>
          LET t == Update(model, KeyMsg("enter"), GetBookCount(rows), IoOk).m
          IN /\ t.currentScreen = ExportScreen
             /\ t.exportScreen.state = PathInput
             /\ t.exportScreen.isError)

================================================================================
